---- MODULE Spec2Model ----
(***************************************************************************)
(* The overlay layout engine of apps/web/src/pages/OverlayPage.tsx: one    *)
(* layout pass per data snapshot (the `layout` useMemo), re-run on every   *)
(* refetch of the overlay feed.                                            *)
(*                                                                         *)
(* Numbers.  The code computes in IEEE doubles; the model computes in      *)
(* integers.  Lengths are whole pixels, a product with a decimal constant  *)
(* is taken with floor ((v * 85) \div 100 for v * 0.85), fractions in      *)
(* [0,1] are per-mille (0..1000), overlap ratios are per-mille rounded up  *)
(* (so that a comparison against 0.05 is exact), angles are steps of       *)
(* 2*pi/168.  Seed strings are sequences of UTF-16 code units and          *)
(* hashString is computed exactly on them (32-bit wrap-around); the        *)
(* sin-based step of randomFromHash, which no integer arithmetic           *)
(* reproduces, is a fixed integer mixing of the hash (see sinFraction).    *)
(*                                                                         *)
(* Layout.  A function of the code is one operator of the same name; where *)
(* the function holds an intermediate result in a local variable and uses  *)
(* it several times, the rest of the function is an operator of its own    *)
(* that receives the result as a parameter, and a list built by map() is   *)
(* made a tuple on the spot (\o <<>>), so that it is computed once.        *)
(***************************************************************************)
EXTENDS Integers, Sequences, FiniteSets, TLC

VARIABLES
    canvasSize,        \* {width, height} of the pass
    zones,             \* safeZoneConfig.zones (already scaled to the canvas)
    safeZoneEnabled,   \* safeZoneSetting.enabled
    rotationEnabled,   \* settings.rotationEnabled
    submissions,       \* query.data.submissions: the ordered item ids
    phase,             \* position inside the pass
    pockets,           \* the pass's pocket list (usage / usedArea mutate)
    densityMap,        \* the pass's density grid values (per-mille)
    placements,        \* rectangles placed so far in this pass
    items,             \* the mapped items of this pass ({id,x,y,size,rotation,zIndex})
    layout,            \* the value of the `layout` memo (last finished pass)
    prevLayout,        \* history: the layout of the pass before the last refetch
    passNo,            \* history: number of passes started
    lastCall,          \* history: the last call observed, with its arguments and results
    suspended          \* the locals of a second pass whose steps interleave with this one

vars == <<canvasSize, zones, safeZoneEnabled, rotationEnabled, submissions, phase,
          pockets, densityMap, placements, items, layout, prevLayout, passNo,
          lastCall, suspended>>

-----------------------------------------------------------------------------
(* Bounds of the model *)

NumCanvases == 3
NumZoneConfigs == 3
MaxItems == 4
NumIdLists == 1
MaxPasses == 2
ScenarioIdLists == 4
CrowdIdLists == 1
MaxCount == 40
NumTinyCanvases == 6
MaxTinyItems == 2
ProbeCols == 12
ProbeRows == 8
NumProbeSizes == 3
NumZoneOffsets == 3
NumZoneSpans == 3
SubGrid == 4

-----------------------------------------------------------------------------
(* Arithmetic helpers *)

Min(a, b) == IF a < b THEN a ELSE b
Max(a, b) == IF a > b THEN a ELSE b

\* Math.min / Math.max / sum over s[lo..hi], by halves (the evaluator's
\* stack does not hold a recursion as deep as a list is long)
RECURSIVE MinIn(_, _, _)
MinIn(s, lo, hi) ==
    IF lo = hi THEN s[lo]
    ELSE Min(MinIn(s, lo, (lo + hi) \div 2), MinIn(s, (lo + hi) \div 2 + 1, hi))
MinOf(s) == MinIn(s, 1, Len(s))

RECURSIVE MaxIn(_, _, _)
MaxIn(s, lo, hi) ==
    IF lo = hi THEN s[lo]
    ELSE Max(MaxIn(s, lo, (lo + hi) \div 2), MaxIn(s, (lo + hi) \div 2 + 1, hi))
MaxOf(s) == MaxIn(s, 1, Len(s))

RECURSIVE SumIn(_, _, _)
SumIn(s, lo, hi) ==
    IF lo > hi THEN 0
    ELSE IF lo = hi THEN s[lo]
    ELSE SumIn(s, lo, (lo + hi) \div 2) + SumIn(s, (lo + hi) \div 2 + 1, hi)
SumOf(s) == SumIn(s, 1, Len(s))

\* Math.round(num / den) for num >= 0, den > 0 (round half up)
RoundDiv(num, den) == (2 * num + den) \div (2 * den)

\* ceil(num / den) for num >= 0, den > 0
CeilDiv(num, den) == (num + den - 1) \div den

\* floor(sqrt(n)) for n >= 0
RECURSIVE SqrtIter(_, _, _)
SqrtIter(n, lo, hi) ==
    IF lo >= hi THEN lo
    ELSE LET mid == (lo + hi + 1) \div 2
         IN IF mid <= n \div mid THEN SqrtIter(n, mid, hi) ELSE SqrtIter(n, lo, mid - 1)
Sqrt(n) == IF n <= 0 THEN 0 ELSE SqrtIter(n, 0, Min(n, 46340))

clamp(value, min, max) == Min(Max(value, min), max)

-----------------------------------------------------------------------------
(* Strings as sequences of code units, hashString, randomFromHash *)

RECURSIVE DigitsOfNat(_)
DigitsOfNat(n) == IF n < 10 THEN <<48 + n>> ELSE DigitsOfNat(n \div 10) \o <<48 + (n % 10)>>

\* `${n}` for an integer n
NumStr(n) == IF n < 0 THEN <<45>> \o DigitsOfNat(0 - n) ELSE DigitsOfNat(n)

Dash == <<45>>
TagScale == <<45, 115, 99, 97, 108, 101>>
TagOffsetX == <<45, 111, 102, 102, 115, 101, 116, 45, 120, 45>>
TagOffsetY == <<45, 111, 102, 102, 115, 101, 116, 45, 121, 45>>
TagRotationSign == <<45, 114, 111, 116, 97, 116, 105, 111, 110, 45, 115, 105, 103, 110>>
TagRotationMag == <<45, 114, 111, 116, 97, 116, 105, 111, 110, 45, 109, 97, 103>>
TagRotationFlat == <<45, 114, 111, 116, 97, 116, 105, 111, 110, 45, 102, 108, 97, 116>>
TagOverlap == <<45, 111, 118, 101, 114, 108, 97, 112, 45>>
TagFallback == <<45, 102, 97, 108, 108, 98, 97, 99, 107, 45>>
TagX == <<45, 120>>
TagY == <<45, 121>>
TagJx == <<45, 106, 120>>
TagJy == <<45, 106, 121>>
TagJitter == <<45, 106, 105, 116, 116, 101, 114>>
TagPocketChoice == <<45, 112, 111, 99, 107, 101, 116, 45, 99, 104, 111, 105, 99, 101, 45>>
NamePocket == <<112, 111, 99, 107, 101, 116, 45>>
NameEdgeTop == <<101, 100, 103, 101, 45, 116, 111, 112>>
NameEdgeBottom == <<101, 100, 103, 101, 45, 98, 111, 116, 116, 111, 109>>
NameEdgeLeft == <<101, 100, 103, 101, 45, 108, 101, 102, 116>>
NameEdgeRight == <<101, 100, 103, 101, 45, 114, 105, 103, 104, 116>>
NameFallback == <<102, 97, 108, 108, 98, 97, 99, 107>>

\* One round of hashString's loop: hash = ((hash << 5) - hash + c) | 0, on a
\* signed 32-bit value, computed on 16-bit halves so that no intermediate
\* leaves the 32-bit range.
hashStep(hash, c) ==
    LET lo == hash % 65536
        hi == (hash \div 65536) % 65536
        lo31 == lo * 31 + c
        newLo == lo31 % 65536
        newHi == (hi * 31 + lo31 \div 65536) % 65536
        signedHi == IF newHi >= 32768 THEN newHi - 65536 ELSE newHi
    IN signedHi * 65536 + newLo

\* the values `hash | 0` can take
Int32 == (0 - 2147483647 - 1)..2147483647

\* the loop over input[lo..hi], entered with `hash`; the rounds of the first
\* half are run before those of the second
RECURSIVE hashFrom(_, _, _, _)
hashFrom(hash, input, lo, hi) ==
    IF lo > hi THEN hash
    ELSE IF lo = hi THEN hashStep(hash, input[lo])
    ELSE LET mid == (lo + hi) \div 2
             reached == hashFrom(hash, input, lo, mid)
         IN CASE reached \in Int32 -> hashFrom(reached, input, mid + 1, hi)

hashString(input) == hashFrom(0, input, 1, Len(input))

\* Resolution of a fraction in [0,1): per-mille
PerMille == 1000

\* Math.abs(Math.sin(hash) * 10000) % 1, in per-mille.  The model keeps that
\* the fraction is a function of the hash alone and lies in [0,1); the value
\* itself is an integer mixing of the hash's two halves.
sinFraction(hash) ==
    LET lo == hash % 65536
        hi == (hash \div 65536) % 65536
    IN (hi * 251 + lo * 241 + (lo \div 7) + (hi \div 3)) % PerMille

\* min + (max - min) * fraction, min and max in the unit of the call site
randomFromHash(seed, min, max) ==
    min + ((max - min) * sinFraction(hashString(seed))) \div PerMille

-----------------------------------------------------------------------------
(* Geometry primitives *)

Rect(x, y, w, h) == [x |-> x, y |-> y, width |-> w, height |-> h]

\* A square {x, y, size}.  `exhausted` is a history field, not in the code:
\* it records that the square was produced by the exhaustion fallback of
\* keepOutsideSafeZones (lines 638-671).
Sq(x, y, size) == [x |-> x, y |-> y, size |-> size, exhausted |-> FALSE]
Square == [x : Int, y : Int, size : Int, exhausted : BOOLEAN]

clampRect(rect, canvas) ==
    Sq(clamp(rect.x, 0, canvas.width - rect.size),
       clamp(rect.y, 0, canvas.height - rect.size),
       rect.size)

\* null is modelled by the empty sequence, a rectangle by a one-element one
intersectRect(a, b) ==
    LET x1 == Max(a.x, b.x)
        y1 == Max(a.y, b.y)
        x2 == Min(a.x + a.width, b.x + b.width)
        y2 == Min(a.y + a.height, b.y + b.height)
    IN IF x2 <= x1 \/ y2 <= y1 THEN <<>> ELSE <<Rect(x1, y1, x2 - x1, y2 - y1)>>

\* lines 333-369: the up to four pieces of `source` around `intersection`
subtractIntersection(source, intersection) ==
    LET sourceRight == source.x + source.width
        sourceBottom == source.y + source.height
        intersectRight == intersection.x + intersection.width
        intersectBottom == intersection.y + intersection.height
        top == IF intersection.y > source.y
               THEN <<Rect(source.x, source.y, source.width, intersection.y - source.y)>>
               ELSE <<>>
        bottom == IF intersectBottom < sourceBottom
                  THEN <<Rect(source.x, intersectBottom, source.width,
                              sourceBottom - intersectBottom)>>
                  ELSE <<>>
        left == IF intersection.x > source.x
                THEN <<Rect(source.x, intersection.y, intersection.x - source.x,
                            intersection.height)>>
                ELSE <<>>
        right == IF intersectRight < sourceRight
                 THEN <<Rect(intersectRight, intersection.y, sourceRight - intersectRight,
                             intersection.height)>>
                 ELSE <<>>
    IN SelectSeq(top \o bottom \o left \o right, LAMBDA r : r.width > 1 /\ r.height > 1)

\* subtractRect that returns the source whole
subtractRectKeeping(source, cut) == <<source>>

\* lines 322-370
subtractRect(source, cut) ==
    IF intersectRect(source, cut) = <<>> THEN <<source>>
    ELSE subtractIntersection(source, intersectRect(source, cut)[1])

SAFE_ZONE_PADDING == 32

padSafeZone(safeZone, padding, canvas) ==
    LET x == clamp(safeZone.x - padding, 0, canvas.width)
        y == clamp(safeZone.y - padding, 0, canvas.height)
    IN Rect(x, y,
            Min(canvas.width - x, safeZone.width + padding * 2),
            Min(canvas.height - y, safeZone.height + padding * 2))

\* a is a square, b a rectangle
rectsOverlap(a, b) ==
    /\ a.x < b.x + b.width
    /\ a.x + a.size > b.x
    /\ a.y < b.y + b.height
    /\ a.y + a.size > b.y

overlapAreaWithZone(rect, zone) ==
    LET w == Max(0, Min(rect.x + rect.size, zone.x + zone.width) - Max(rect.x, zone.x))
        h == Max(0, Min(rect.y + rect.size, zone.y + zone.height) - Max(rect.y, zone.y))
    IN w * h

totalOverlapArea(rect, zoneList) ==
    SumOf([i \in 1..Len(zoneList) |-> overlapAreaWithZone(rect, zoneList[i])])

overlapArea(a, b) ==
    LET w == Max(0, Min(a.x + a.size, b.x + b.size) - Max(a.x, b.x))
        h == Max(0, Min(a.y + a.size, b.y + b.size) - Max(a.y, b.y))
    IN w * h

\* 0.05, per-mille
MAX_OVERLAP_RATIO == 50

\* overlap / min(areaA, areaB), per-mille rounded up
overlapRatio(a, b) ==
    LET overlap == overlapArea(a, b) IN
    IF overlap = 0 THEN 0
    ELSE CeilDiv(overlap * PerMille, Min(a.size * a.size, b.size * b.size))

overlapScore(candidate, existing) ==
    IF existing = <<>> THEN 0
    ELSE MaxOf([i \in 1..Len(existing) |-> overlapRatio(candidate, existing[i])])

-----------------------------------------------------------------------------
(* Density map *)

DENSITY_COLS == 4
DENSITY_ROWS == 3

\* cellWidth = width / cols and cellHeight = height / rows are kept as the
\* exact ratios: the map records the canvas it was made for.
createDensityMap(canvas) ==
    [cols |-> DENSITY_COLS, rows |-> DENSITY_ROWS,
     width |-> canvas.width, height |-> canvas.height,
     values |-> [i \in 1..(DENSITY_COLS * DENSITY_ROWS) |-> 0]]

\* Math.floor(v / cellWidth) = floor(v * cols / width)
cellCol(map, v) == (v * map.cols) \div map.width
cellRow(map, v) == (v * map.rows) \div map.height

\* average of the visited cells, per-mille
sampleDensity(map, rect) ==
    LET startCol == Max(0, cellCol(map, rect.x))
        endCol == Min(map.cols - 1, cellCol(map, rect.x + rect.width))
        startRow == Max(0, cellRow(map, rect.y))
        endRow == Min(map.rows - 1, cellRow(map, rect.y + rect.height))
        cells == {<<row, col>> \in (startRow..endRow) \X (startCol..endCol) : TRUE}
        samples == Cardinality(cells)
        total == SumOf([k \in 1..(map.cols * map.rows) |->
                          IF <<(k - 1) \div map.cols, (k - 1) % map.cols>> \in cells
                          THEN map.values[k] ELSE 0])
    IN IF samples = 0 THEN 0 ELSE Min(PerMille, total \div samples)

\* overlapArea / cellArea of the square with cell (row, col), per-mille:
\* (4 * overlapWidth) * (3 * overlapHeight) / (width * height)
cellContribution(map, rect, row, col) ==
    LET ow == Max(0, Min((rect.x + rect.size) * map.cols, (col + 1) * map.width)
                     - Max(rect.x * map.cols, col * map.width))
        oh == Max(0, Min((rect.y + rect.size) * map.rows, (row + 1) * map.height)
                     - Max(rect.y * map.rows, row * map.height))
    IN IF ow = 0 \/ oh = 0 THEN 0
       ELSE (ow * oh * PerMille) \div (map.width * map.height)

\* applyDensity without the cap Math.min(1, ...)
applyDensityUncapped(map, rect) ==
    [map EXCEPT !.values =
       [k \in 1..(map.cols * map.rows) |->
          map.values[k] + cellContribution(map, rect, (k - 1) \div map.cols,
                                           (k - 1) % map.cols)]]

\* lines 415-439
applyDensity(map, rect) ==
    LET startCol == Max(0, cellCol(map, rect.x))
        endCol == Min(map.cols - 1, cellCol(map, rect.x + rect.size))
        startRow == Max(0, cellRow(map, rect.y))
        endRow == Min(map.rows - 1, cellRow(map, rect.y + rect.size))
    IN [map EXCEPT !.values =
          [k \in 1..(map.cols * map.rows) |->
             LET row == (k - 1) \div map.cols
                 col == (k - 1) % map.cols
             IN IF row >= startRow /\ row <= endRow /\ col >= startCol /\ col <= endCol
                   /\ cellContribution(map, rect, row, col) > 0
                THEN Min(PerMille, map.values[k] + cellContribution(map, rect, row, col))
                ELSE map.values[k]]]

-----------------------------------------------------------------------------
(* Pocket builder *)

createPocket(name, rect, maxSize, priority) ==
    [name |-> name, rect |-> rect,
     maxSize |-> Max(48, Min(maxSize, Min(rect.width, rect.height))),
     usage |-> 0, usedArea |-> 0, priority |-> priority]

\* Math.min(maxSlices, Math.max(1, Math.round(side / targetSize) || 1))
sliceCount(side) == Min(4, Max(1, RoundDiv(side, 260)))

\* lines 470-498: the pocket itself for a 1 x 1 grid, else the grid of
\* columns x rows slices, or the pocket when the slices are narrower than 60.
\* Priorities are per-mille: pocket.priority + 0.05 is priority + 50.
slicePocket(pocket, columns, rows) ==
    LET rect == pocket.rect
        sliceWidth == rect.width \div columns
        sliceHeight == rect.height \div rows
        gapX == IF columns > 1 THEN Min(22, (sliceWidth * 18) \div 100) ELSE 0
        gapY == IF rows > 1 THEN Min(22, (sliceHeight * 18) \div 100) ELSE 0
    IN IF columns = 1 /\ rows = 1 THEN <<pocket>>
       ELSE IF sliceWidth - gapX < 60 \/ sliceHeight - gapY < 60 THEN <<pocket>>
       ELSE [k \in 1..(rows * columns) |->
               createPocket(pocket.name \o Dash \o NumStr(k - 1),
                            Rect(rect.x + ((k - 1) % columns) * sliceWidth + gapX \div 2,
                                 rect.y + ((k - 1) \div columns) * sliceHeight + gapY \div 2,
                                 sliceWidth - gapX, sliceHeight - gapY),
                            pocket.maxSize, pocket.priority + 50)] \o <<>>

\* lines 461-468: aspectRatio > 1.2, with aspectRatio = width / max(1, height)
subdividePocket(pocket) ==
    slicePocket(pocket,
                IF pocket.rect.width * 10 > 12 * Max(1, pocket.rect.height)
                THEN sliceCount(pocket.rect.width) ELSE 1,
                IF pocket.rect.height * 10 > 12 * Max(1, pocket.rect.width)
                THEN sliceCount(pocket.rect.height) ELSE 1)

\* .flatMap((pocket) => subdividePocket(pocket))
RECURSIVE subdivideAll(_)
subdivideAll(pocketList) ==
    IF pocketList = <<>> THEN <<>>
    ELSE subdividePocket(pocketList[1]) \o subdivideAll(Tail(pocketList))

\* rects.flatMap((rect) => subtractRect(rect, zone))
RECURSIVE subtractEach(_, _)
subtractEach(rects, zone) ==
    IF rects = <<>> THEN <<>>
    ELSE subtractRect(rects[1], zone) \o subtractEach(Tail(rects), zone)

\* the same for every zone in turn
RECURSIVE subtractAll(_, _)
subtractAll(rects, paddedZones) ==
    IF paddedZones = <<>> THEN rects
    ELSE subtractAll(subtractEach(rects, paddedZones[1]), Tail(paddedZones))

\* safeZones.map((zone) => padSafeZone(zone, SAFE_ZONE_PADDING, canvas))
padAll(safeZones, canvas) ==
    [i \in 1..Len(safeZones) |-> padSafeZone(safeZones[i], SAFE_ZONE_PADDING, canvas)] \o <<>>

\* lines 268-280: the four bands along the edges of baseRect
edgeBandRects(baseRect, edgeThickness) ==
    << [name |-> NameEdgeTop,
        rect |-> Rect(baseRect.x, baseRect.y, baseRect.width, edgeThickness)],
       [name |-> NameEdgeBottom,
        rect |-> Rect(baseRect.x, baseRect.y + baseRect.height - edgeThickness,
                      baseRect.width, edgeThickness)],
       [name |-> NameEdgeLeft,
        rect |-> Rect(baseRect.x, baseRect.y, edgeThickness, baseRect.height)],
       [name |-> NameEdgeRight,
        rect |-> Rect(baseRect.x + baseRect.width - edgeThickness, baseRect.y,
                      edgeThickness, baseRect.height)] >>

\* .map((rect, idx) => ({ name: `${band.name}-${idx}`, rect }))
namedPieces(name, pieces) ==
    [idx \in 1..Len(pieces) |->
        [name |-> name \o Dash \o NumStr(idx - 1), rect |-> pieces[idx]]] \o <<>>

\* lines 281-284: every band with the padded zones cut out of it
RECURSIVE bandPieces(_, _)
bandPieces(bands, paddedZones) ==
    IF bands = <<>> THEN <<>>
    ELSE namedPieces(bands[1].name, subtractAll(<<bands[1].rect>>, paddedZones))
         \o bandPieces(Tail(bands), paddedZones)

\* lines 285-294: the pieces large enough, as pockets of priority 1.25
keptBandPockets(kept) ==
    [i \in 1..Len(kept) |->
        createPocket(kept[i].name, kept[i].rect,
                     Max(80, Min(kept[i].rect.width, kept[i].rect.height)), 1250)] \o <<>>

edgeBandPockets(pieces) ==
    keptBandPockets(SelectSeq(pieces, LAMBDA b : b.rect.width > 48 /\ b.rect.height > 48))

\* lines 297-305: the rectangles large enough, as pockets;
\* priorityBase = Math.min(1.2, 0.85 + area / Math.max(1, width * height))
keptRectPockets(kept, canvas) ==
    [index \in 1..Len(kept) |->
        createPocket(NamePocket \o NumStr(index - 1), kept[index],
                     Max(70, Min(kept[index].width, kept[index].height)),
                     Min(1200, 850 + (kept[index].width * kept[index].height)
                                       \div Max(1, (canvas.width * canvas.height)
                                                     \div PerMille)))] \o <<>>

plainPockets(availableRects, canvas) ==
    keptRectPockets(SelectSeq(availableRects, LAMBDA r : r.width > 32 /\ r.height > 32),
                    canvas)

\* lines 264-266: if (availableRects.length === 0) availableRects = [baseRect]
orBaseRect(availableRects, baseRect) ==
    IF Len(availableRects) = 0 THEN <<baseRect>> ELSE availableRects

\* orFallbackPocket without the fallback pocket
orFallbackPocketNone(pocketList, baseRect) == pocketList

\* lines 309-319: the pockets, or one fallback pocket over baseRect
orFallbackPocket(pocketList, baseRect) ==
    IF Len(pocketList) = 0
    THEN <<createPocket(NameFallback, baseRect,
                        Max(90, Min(baseRect.width, baseRect.height)), PerMille)>>
    ELSE pocketList

\* lines 259-319
pocketsAround(baseRect, paddedZones, canvas) ==
    orFallbackPocket(
        subdivideAll(plainPockets(orBaseRect(subtractAll(<<baseRect>>, paddedZones),
                                             baseRect), canvas))
        \o edgeBandPockets(
             bandPieces(edgeBandRects(baseRect,
                                      Max(110, (Min(canvas.width, canvas.height) * 18)
                                                 \div 100)),
                        paddedZones)),
        baseRect)

buildPockets(canvas, safeZones) ==
    LET margin == 28
        baseRect == Rect(margin, margin,
                         Max(0, canvas.width - margin * 2),
                         Max(0, canvas.height - margin * 2))
    IN IF baseRect.width <= 0 \/ baseRect.height <= 0
       THEN <<createPocket(NameFallback, Rect(0, 0, canvas.width, canvas.height),
                           Max(80, Min(canvas.width, canvas.height)), PerMille)>>
       ELSE pocketsAround(baseRect, padAll(safeZones, canvas), canvas)

-----------------------------------------------------------------------------
(* Pocket selector *)

\* Math.pow(usage, 1.15), in 1/100, for usage 0..40; linear beyond
Pow115Table ==
    <<0, 100, 222, 354, 492, 637, 785, 937, 1093, 1251, 1413, 1576, 1742, 1910, 2080,
      2252, 2425, 2600, 2777, 2955, 3135, 3316, 3498, 3681, 3866, 4052, 4239, 4427,
      4616, 4806, 4997, 5189, 5382, 5576, 5770, 5966, 6162, 6360, 6558, 6757, 6956>>
pow115(usage) ==
    IF usage < Len(Pow115Table) THEN Pow115Table[usage + 1] ELSE usage * 175

\* Math.cos(angleDiff) in per-mille, where angleDiff is the angle between the
\* pocket centre's offset from the canvas centre (dx, dy) and the desired
\* direction index % 4 (left, top, right, bottom): the normalised dot product.
\* Math.atan2(0, 0) is 0, the direction "right".
directionCos(dx, dy, index) ==
    LET dir == index % 4
        norm == Sqrt(dx * dx + dy * dy)
        ux == IF norm = 0 THEN 1 ELSE dx
        uy == IF norm = 0 THEN 0 ELSE dy
        dot == CASE dir = 0 -> 0 - ux
                 [] dir = 1 -> 0 - uy
                 [] dir = 2 -> ux
                 [] OTHER -> uy
    IN clamp((dot * PerMille) \div Max(1, norm), 0 - PerMille, PerMille)

pocketScore(pocketList, k, index, seed, density, canvas) ==
    LET pocket == pocketList[k]
        usages == [i \in 1..Len(pocketList) |-> pocketList[i].usage]
        expectedUsage == index \div Max(1, Len(pocketList))
        minUsage == MinOf(usages)
        maxUsage == MaxOf(usages)
        area == pocket.rect.width * pocket.rect.height
        freeArea == Max(1, area - pocket.usedArea)
        usageHeadroom == Max(0, pocket.usage - expectedUsage)
        usagePenalty == (pow115(Max(0, pocket.usage)) * Max(70, pocket.maxSize \div 4)) \div 100
                        + usageHeadroom * 110
        saturationPenalty80 == (pocket.usedArea * 80) \div Max(1, area)
        pocketCenterX == pocket.rect.x + pocket.rect.width \div 2
        pocketCenterY == pocket.rect.y + pocket.rect.height \div 2
        directionalBias ==
            (directionCos(pocketCenterX - canvas.width \div 2,
                          pocketCenterY - canvas.height \div 2, index) * 9) \div 10
        nearestEdge == MinOf(<<pocketCenterX, canvas.width - pocketCenterX,
                               pocketCenterY, canvas.height - pocketCenterY>>)
        edgeBias ==
            (clamp(PerMille - (nearestEdge * PerMille)
                                \div Max(1, Min(canvas.width, canvas.height) \div 2),
                   0, PerMille) * 55) \div 100
        noise == randomFromHash(seed \o Dash \o pocket.name \o TagJitter, 0 - 40, 40)
        densityFactor == PerMille - sampleDensity(density, pocket.rect)
        spreadBias == IF maxUsage = 0 THEN 1200
                      ELSE clamp(1200 - (pocket.usage * 800) \div maxUsage, 550, 1200)
        diversityBoost == IF pocket.usage = minUsage THEN 108 ELSE 100
        \* priority * densityFactor * 0.45 + 0.15 + directionalBias * 0.7 + edgeBias * 0.6
        weight == (((pocket.priority * densityFactor) \div PerMille) * 45) \div 100
                  + 150 + (directionalBias * 7) \div 10 + (edgeBias * 6) \div 10
        positiveScore == ((freeArea \div 8) * weight) \div 125
    IN ((((positiveScore \div 10) * spreadBias) \div 100) * diversityBoost) \div 100
       - usagePenalty - saturationPenalty80 + noise

\* pickRanked on the sort by ascending score
pickRankedLowest(score, randomPickIndex) ==
    CHOOSE k \in 1..Len(score) :
        Cardinality({j \in 1..Len(score) : score[j] < score[k]
                                            \/ (score[j] = score[k] /\ j < k)})
          = randomPickIndex

\* lines 736-742: the pocket at position randomPickIndex of the stable sort
\* by descending score
pickRanked(score, randomPickIndex) ==
    CHOOSE k \in 1..Len(score) :
        Cardinality({j \in 1..Len(score) : score[j] > score[k]
                                            \/ (score[j] = score[k] /\ j < k)})
          = randomPickIndex

\* The position in `pocketList` of the pocket selectPocket returns; 0 stands
\* for the synthetic fallback pocket of an empty list.
selectPocket(pocketList, index, seed, density, canvas) ==
    IF Len(pocketList) = 0 THEN 0
    ELSE pickRanked([k \in 1..Len(pocketList) |->
                        pocketScore(pocketList, k, index, seed, density, canvas)] \o <<>>,
                    (randomFromHash(seed \o TagPocketChoice \o NumStr(index), 0, 999)
                       * Min(4, Len(pocketList))) \div PerMille)

syntheticPocket == createPocket(NameFallback, Rect(16, 16, 240, 240), 160, PerMille)

-----------------------------------------------------------------------------
(* Placement resolver: safe-zone push-out *)

\* keepOutsideSingleZone that never moves the rectangle
keepOutsideSingleZoneStaying(rect, safeZone, canvas) == clampRect(rect, canvas)

\* lines 511-551: the four sides of the padded zone, each with the room it
\* leaves (available) and the position compute() gives
spacesAround(candidate, paddedZone, canvas) ==
    LET keptY == clamp(candidate.y, SAFE_ZONE_PADDING,
                       canvas.height - candidate.size - SAFE_ZONE_PADDING)
        keptX == clamp(candidate.x, SAFE_ZONE_PADDING,
                       canvas.width - candidate.size - SAFE_ZONE_PADDING)
    IN << \* left
          [available |-> paddedZone.x,
           x |-> Max(0, paddedZone.x - candidate.size - SAFE_ZONE_PADDING),
           y |-> keptY],
          \* right
          [available |-> canvas.width - (paddedZone.x + paddedZone.width),
           x |-> Min(canvas.width - candidate.size - SAFE_ZONE_PADDING,
                     paddedZone.x + paddedZone.width + SAFE_ZONE_PADDING),
           y |-> keptY],
          \* top
          [available |-> paddedZone.y,
           x |-> keptX,
           y |-> Max(0, paddedZone.y - candidate.size - SAFE_ZONE_PADDING)],
          \* bottom
          [available |-> canvas.height - (paddedZone.y + paddedZone.height),
           x |-> keptX,
           y |-> Min(canvas.height - candidate.size - SAFE_ZONE_PADDING,
                     paddedZone.y + paddedZone.height + SAFE_ZONE_PADDING)] >>

\* lines 555-562: the option of one space
spaceOption(space, candidate, canvas) ==
    [rect |-> clampRect(Sq(space.x, space.y,
                           Max(48, Min(candidate.size,
                                       Min(candidate.size,
                                           space.available - SAFE_ZONE_PADDING \div 2)))),
                        canvas),
     clearance |-> space.available]

\* lines 553-564: the options of the spaces with available > SAFE_ZONE_PADDING
\* that are at least 48 wide and clear of the padded zone
spaceCandidates(spaces, candidate, paddedZone, canvas) ==
    SelectSeq([i \in 1..Len(spaces) |-> spaceOption(spaces[i], candidate, canvas)],
              LAMBDA o : /\ o.clearance > SAFE_ZONE_PADDING
                         /\ o.rect.size >= 48
                         /\ ~rectsOverlap(o.rect, paddedZone))

\* reduce((prev, current) => current.clearance > prev.clearance ? current : prev)
bestClearance(candidates) ==
    candidates[CHOOSE i \in 1..Len(candidates) :
                 \A j \in 1..Len(candidates) :
                    /\ candidates[j].clearance <= candidates[i].clearance
                    /\ (j < i => candidates[j].clearance < candidates[i].clearance)]

\* lines 571-589: the corner fallback of a rectangle that cannot shrink further
cornerFallback(fallback, candidate, paddedZone, canvas) ==
    IF ~rectsOverlap(fallback, paddedZone) THEN fallback
    ELSE clampRect(Sq(canvas.width - candidate.size - SAFE_ZONE_PADDING,
                      SAFE_ZONE_PADDING, candidate.size), canvas)

RECURSIVE keepOutsideSingleZone(_, _, _)

\* lines 566-601
bestOrShrunk(candidates, candidate, paddedZone, safeZone, canvas) ==
    IF Len(candidates) > 0 THEN bestClearance(candidates).rect
    ELSE IF candidate.size <= 48
    THEN cornerFallback(clampRect(Sq(SAFE_ZONE_PADDING, SAFE_ZONE_PADDING, candidate.size),
                                  canvas),
                        candidate, paddedZone, canvas)
    ELSE keepOutsideSingleZone(Sq(candidate.x, candidate.y,
                                  Max(48, (candidate.size * 85) \div 100)),
                               safeZone, canvas)

\* lines 508-601, candidate and paddedZone being those of lines 506-507
pushOutOf(candidate, paddedZone, safeZone, canvas) ==
    IF ~rectsOverlap(candidate, paddedZone) THEN candidate
    ELSE bestOrShrunk(spaceCandidates(spacesAround(candidate, paddedZone, canvas),
                                      candidate, paddedZone, canvas),
                      candidate, paddedZone, safeZone, canvas)

keepOutsideSingleZone(rect, safeZone, canvas) ==
    pushOutOf(clampRect(rect, canvas), padSafeZone(safeZone, SAFE_ZONE_PADDING, canvas),
              safeZone, canvas)

overlapsAny(candidate, paddedZones) ==
    \E i \in 1..Len(paddedZones) : rectsOverlap(candidate, paddedZones[i])

RECURSIVE zonePass(_, _, _, _)

\* lines 618-621: next replaces candidate, moved records a change of position
zoneStep(candidate, next, moved, paddedZones, canvas) ==
    CASE next \in Square ->
        zonePass(next, moved \/ next.x # candidate.x \/ next.y # candidate.y,
                 Tail(paddedZones), canvas)

\* for (const zone of paddedZones) { next = keepOutsideSingleZone(...); ... }
zonePass(candidate, moved, paddedZones, canvas) ==
    IF paddedZones = <<>> THEN [candidate |-> candidate, moved |-> moved]
    ELSE zoneStep(candidate, keepOutsideSingleZone(candidate, paddedZones[1], canvas),
                  moved, paddedZones, canvas)

\* lines 626-627: the seeds of the jitter, `${rect.x}-${attempt}-jx` and
\* `${rect.y}-${attempt}-jy`
jitterSeedX(rect, attempt) == NumStr(rect.x) \o Dash \o NumStr(attempt) \o TagJx
jitterSeedY(rect, attempt) == NumStr(rect.y) \o Dash \o NumStr(attempt) \o TagJy

RECURSIVE attemptLoop(_, _, _, _, _)

\* lines 623-631: what follows the sweep over the zones in one attempt
afterZonePass(pass, attempt, rect, paddedZones, canvas) ==
    IF ~overlapsAny(pass.candidate, paddedZones) THEN pass.candidate
    ELSE IF ~pass.moved
    THEN clampRect(Sq(pass.candidate.x
                        + randomFromHash(jitterSeedX(rect, attempt),
                                         0 - SAFE_ZONE_PADDING, SAFE_ZONE_PADDING),
                      pass.candidate.y
                        + randomFromHash(jitterSeedY(rect, attempt),
                                         0 - SAFE_ZONE_PADDING, SAFE_ZONE_PADDING),
                      pass.candidate.size), canvas)
    ELSE attemptLoop(pass.candidate, attempt + 1, rect, paddedZones, canvas)

\* The attempt loop of lines 614-632; the value of `candidate` when it is left
attemptLoop(candidate, attempt, rect, paddedZones, canvas) ==
    IF attempt >= Max(6, Len(paddedZones) * 4) THEN candidate
    ELSE afterZonePass(zonePass(candidate, FALSE, paddedZones, canvas),
                       attempt, rect, paddedZones, canvas)

RECURSIVE jitterAttempt(_, _, _, _)

\* lines 623-631: the attempt whose sweep left the candidate in a zone without
\* moving it (the jitter is drawn and the loop left), or -1
jitterAfter(pass, attempt, paddedZones, canvas) ==
    IF ~overlapsAny(pass.candidate, paddedZones) THEN 0 - 1
    ELSE IF ~pass.moved THEN attempt
    ELSE jitterAttempt(pass.candidate, attempt + 1, paddedZones, canvas)

\* The attempt loop of lines 614-632: the attempt that draws the jitter, or -1
jitterAttempt(candidate, attempt, paddedZones, canvas) ==
    IF attempt >= Max(6, Len(paddedZones) * 4) THEN 0 - 1
    ELSE jitterAfter(zonePass(candidate, FALSE, paddedZones, canvas), attempt,
                     paddedZones, canvas)

\* the seeds the attempt that draws the jitter passes to randomFromHash
jitterSeedsAt(rect, attempt) ==
    IF attempt < 0 THEN {} ELSE {jitterSeedX(rect, attempt), jitterSeedY(rect, attempt)}

\* lines 609-632: the seeds one call of keepOutsideSafeZones passes to
\* randomFromHash
pushOutSeeds(rect, safeZones, canvas) ==
    IF Len(safeZones) = 0 THEN {}
    ELSE jitterSeedsAt(rect, jitterAttempt(clampRect(rect, canvas), 0,
                                           padAll(safeZones, canvas), canvas))

\* lines 643-655: the four corners, then one position per zone on the side
\* of the canvas away from the zone's centre
\* (center.x < canvas.width / 2, with center.x = zone.x + zone.width / 2)
edgeCandidates(shrunkSize, paddedZones, canvas) ==
    LET edgePad == SAFE_ZONE_PADDING
        farX == canvas.width - shrunkSize - edgePad
        farY == canvas.height - shrunkSize - edgePad
    IN << [x |-> edgePad, y |-> edgePad], [x |-> farX, y |-> edgePad],
          [x |-> edgePad, y |-> farY], [x |-> farX, y |-> farY] >>
       \o [i \in 1..Len(paddedZones) |->
             [x |-> clamp(IF 2 * paddedZones[i].x + paddedZones[i].width < canvas.width
                          THEN farX ELSE edgePad, 0, canvas.width),
              y |-> clamp(IF 2 * paddedZones[i].y + paddedZones[i].height < canvas.height
                          THEN farY ELSE edgePad, 0, canvas.height)]]

\* line 660: const option = clampRect({ x: pos.x, y: pos.y, size: shrunkSize }, canvas)
edgeOptions(positions, shrunkSize, canvas) ==
    [k \in 1..Len(positions) |->
        clampRect(Sq(positions[k].x, positions[k].y, shrunkSize), canvas)] \o <<>>

\* The loop of lines 657-671 from option k on
RECURSIVE bestEdgeCandidate(_, _, _, _, _, _)
bestEdgeCandidate(options, k, best, bestScore, paddedZones, canvas) ==
    IF k > Len(options) THEN best
    ELSE LET option == [options[k] EXCEPT !.exhausted = TRUE]
             overlapScoreK == totalOverlapArea(option, paddedZones)
         IN IF overlapScoreK = 0 THEN option
            ELSE IF bestScore < 0 \/ overlapScoreK < bestScore
            THEN bestEdgeCandidate(options, k + 1, option, overlapScoreK, paddedZones, canvas)
            ELSE bestEdgeCandidate(options, k + 1, best, bestScore, paddedZones, canvas)

\* lines 634-671: the candidate the attempt loop left, or the exhaustion fallback
clearOrFallback(candidate, paddedZones, canvas) ==
    IF ~overlapsAny(candidate, paddedZones) THEN candidate
    ELSE bestEdgeCandidate(
            edgeOptions(edgeCandidates(Max(48, (candidate.size * 8) \div 10),
                                       paddedZones, canvas),
                        Max(48, (candidate.size * 8) \div 10), canvas),
            1, candidate, 0 - 1, paddedZones, canvas)

\* keepOutsideSafeZones without the check after the attempt loop: the loop's
\* last candidate is returned as it is
keepOutsideSafeZonesUnchecked(rect, safeZones, canvas) ==
    IF Len(safeZones) = 0 THEN clampRect(rect, canvas)
    ELSE attemptLoop(clampRect(rect, canvas), 0, rect, padAll(safeZones, canvas), canvas)

keepOutsideSafeZones(rect, safeZones, canvas) ==
    IF Len(safeZones) = 0 THEN clampRect(rect, canvas)
    ELSE clearOrFallback(attemptLoop(clampRect(rect, canvas), 0, rect,
                                     padAll(safeZones, canvas), canvas),
                         padAll(safeZones, canvas), canvas)

-----------------------------------------------------------------------------
(* Placement resolver: overlap resolution *)

\* Math.cos of k steps of 2*pi/168, per-mille: the first quadrant, then symmetry
CosQuarter ==
    <<1000, 999, 997, 994, 989, 983, 975, 966, 956, 944, 931, 917, 901, 884, 866, 847,
      826, 805, 782, 758, 733, 707, 680, 652, 623, 594, 563, 532, 500, 467, 434, 400,
      365, 330, 295, 259, 223, 186, 149, 112, 75, 37, 0>>
cosStep(k) ==
    LET a == k % 168
    IN IF a <= 42 THEN CosQuarter[a + 1]
       ELSE IF a <= 84 THEN 0 - CosQuarter[84 - a + 1]
       ELSE IF a <= 126 THEN 0 - CosQuarter[a - 84 + 1]
       ELSE CosQuarter[168 - a + 1]
sinStep(k) == cosStep(k + 126)

\* One candidate of a scan with its score: `hit` when the score meets
\* `limit`, which ends the scan with this candidate
scoredCandidate(candidate, score, limit) ==
    [hit |-> score <= limit, rect |-> candidate, score |-> score]

scoreCandidate(candidate, existing, limit) ==
    CASE candidate \in Square ->
        scoredCandidate(candidate, overlapScore(candidate, existing), limit)

\* firstHitOrBest that keeps the later run's candidate, whatever its score
firstHitOrLast(first, second) ==
    IF first.hit THEN first ELSE second

\* The outcome of two consecutive runs of loop iterations whose candidates do
\* not depend on each other: the first hit, else the first of lowest score.
\* The second run is not evaluated when the first one hits.
firstHitOrBest(first, second) ==
    IF first.hit THEN first
    ELSE IF second.hit THEN second
    ELSE IF second.score < first.score THEN second ELSE first

\* lines 882-891: the candidate of one attempt
fallbackCandidate(seedCandidate, attempt, safeZones, canvas, seed, respectSafeZone) ==
    IF respectSafeZone
    THEN keepOutsideSafeZones(
            clampRect(Sq(randomFromHash(seed \o TagFallback \o NumStr(attempt) \o TagX,
                                        0, canvas.width - seedCandidate.size),
                         randomFromHash(seed \o TagFallback \o NumStr(attempt) \o TagY,
                                        0, canvas.height - seedCandidate.size),
                         seedCandidate.size), canvas),
            safeZones, canvas)
    ELSE clampRect(Sq(randomFromHash(seed \o TagFallback \o NumStr(attempt) \o TagX,
                                     0, canvas.width - seedCandidate.size),
                      randomFromHash(seed \o TagFallback \o NumStr(attempt) \o TagY,
                                     0, canvas.height - seedCandidate.size),
                      seedCandidate.size), canvas)

\* lines 885-900 for the attempts lo..hi
RECURSIVE scanFallback(_, _, _, _, _, _, _, _)
scanFallback(seedCandidate, existing, safeZones, canvas, seed, respectSafeZone, lo, hi) ==
    IF lo = hi
    THEN scoreCandidate(fallbackCandidate(seedCandidate, lo, safeZones, canvas, seed,
                                          respectSafeZone),
                        existing, (MAX_OVERLAP_RATIO * 8) \div 10)
    ELSE firstHitOrBest(
            scanFallback(seedCandidate, existing, safeZones, canvas, seed, respectSafeZone,
                         lo, (lo + hi) \div 2),
            scanFallback(seedCandidate, existing, safeZones, canvas, seed, respectSafeZone,
                         (lo + hi) \div 2 + 1, hi))

\* lines 876-903, bestScore being the seed candidate's score
bestOfFallback(seedCandidate, seedScore, scan) ==
    IF scan.hit \/ scan.score < seedScore THEN scan.rect ELSE seedCandidate

findLowOverlapPlacement(seedCandidate, existing, safeZones, canvas, seed, respectSafeZone) ==
    IF overlapScore(seedCandidate, existing) <= MAX_OVERLAP_RATIO THEN seedCandidate
    ELSE bestOfFallback(seedCandidate, overlapScore(seedCandidate, existing),
                        scanFallback(seedCandidate, existing, safeZones, canvas, seed,
                                     respectSafeZone, 0, 42 - 1))

\* size at the start of shrink round `shrink`: size = Math.max(56, size * 0.9) per round
RECURSIVE shrunkSizeAt(_, _)
shrunkSizeAt(size, shrink) ==
    IF shrink = 0 THEN size ELSE shrunkSizeAt(Max(56, (size * 9) \div 10), shrink - 1)

\* lines 782-792: offset j (0..18) of a shrink round: five fixed ones, then
\* one per angular step; `angle` is in steps of 2*pi/168
offsetAt(j, shift, angle) ==
    CASE j = 0 -> [dx |-> 0, dy |-> 0]
      [] j = 1 -> [dx |-> shift, dy |-> 0]
      [] j = 2 -> [dx |-> 0 - shift, dy |-> 0]
      [] j = 3 -> [dx |-> 0, dy |-> shift]
      [] j = 4 -> [dx |-> 0, dy |-> 0 - shift]
      [] OTHER -> [dx |-> (cosStep(angle) * shift) \div PerMille,
                   dy |-> (sinStep(angle) * shift) \div PerMille]

\* (i / steps) * 2*pi + randomFromHash(..., 0, pi / 6), with i = j - 5
ringOffset(rect, size, shrink, j, seed) ==
    offsetAt(j, (size * (58 - shrink * 5)) \div 100,
             (j - 5) * 12
             + randomFromHash(seed \o TagOverlap \o NumStr(rect.x) \o Dash \o NumStr(rect.y)
                                \o Dash \o NumStr(shrink) \o Dash \o NumStr(j - 5), 0, 14))

\* lines 794-805: the candidate at one offset
ringPlace(rect, size, offset, safeZones, canvas, respectSafeZone) ==
    IF respectSafeZone
    THEN keepOutsideSafeZones(clampRect(Sq(rect.x + offset.dx, rect.y + offset.dy, size),
                                        canvas), safeZones, canvas)
    ELSE clampRect(Sq(rect.x + offset.dx, rect.y + offset.dy, size), canvas)

ringCandidate(rect, size, shrink, j, safeZones, canvas, seed, respectSafeZone) ==
    ringPlace(rect, size, ringOffset(rect, size, shrink, j, seed), safeZones, canvas,
              respectSafeZone)

\* lines 781-817 for the candidates lo..hi, candidate n being offset n % 19
\* of shrink round n \div 19
RECURSIVE scanRings(_, _, _, _, _, _, _, _)
scanRings(rect, existing, safeZones, canvas, seed, respectSafeZone, lo, hi) ==
    IF lo = hi
    THEN scoreCandidate(ringCandidate(rect, shrunkSizeAt(rect.size, lo \div 19), lo \div 19,
                                      lo % 19, safeZones, canvas, seed, respectSafeZone),
                        existing, MAX_OVERLAP_RATIO)
    ELSE firstHitOrBest(
            scanRings(rect, existing, safeZones, canvas, seed, respectSafeZone,
                      lo, (lo + hi) \div 2),
            scanRings(rect, existing, safeZones, canvas, seed, respectSafeZone,
                      (lo + hi) \div 2 + 1, hi))

\* lines 808-819: the candidate that met the tolerance, else the fallback
\* search seeded with the best one
hitOrFallback(scan, existing, safeZones, canvas, seed, respectSafeZone) ==
    IF scan.hit THEN scan.rect
    ELSE findLowOverlapPlacement(scan.rect, existing, safeZones, canvas, seed,
                                 respectSafeZone)

\* resolveOverlaps that accepts the rectangle it is given
resolveOverlapsAccepting(rect, existing, safeZones, canvas, seed, respectSafeZone) == rect

resolveOverlaps(rect, existing, safeZones, canvas, seed, respectSafeZone) ==
    IF Len(existing) = 0 THEN rect
    ELSE hitOrFallback(scanRings(rect, existing, safeZones, canvas, seed, respectSafeZone,
                                 0, 4 * 19 - 1),
                       existing, safeZones, canvas, seed, respectSafeZone)

-----------------------------------------------------------------------------
(* Layout driver *)

shortestSide(canvas) == Min(canvas.width, canvas.height)
minStickerSize(canvas) == Max(68, RoundDiv(shortestSide(canvas) * 8, 100))
maxStickerSize(canvas) == Min(260, RoundDiv(shortestSide(canvas) * 28, 100))

\* baseSize with an empty list counted as a crowd of 60 (length || 60)
baseSizeEmptyAsCrowd(canvas, pocketList, count) ==
    LET availableArea ==
            Max(1, SumOf([i \in 1..Len(pocketList) |->
                            pocketList[i].rect.width * pocketList[i].rect.height]))
        areaPerItem == availableArea \div Max(1, IF count = 0 THEN 60 ELSE count)
        adaptiveBase == (Sqrt(areaPerItem) * 78) \div 100
    IN clamp(Max((Min(canvas.width, canvas.height) * 16) \div 100, adaptiveBase),
             Max(68, RoundDiv(Min(canvas.width, canvas.height) * 8, 100)),
             Min(260, RoundDiv(Min(canvas.width, canvas.height) * 28, 100)))

\* lines 117-123; pocket rectangles never change during a pass
baseSize(canvas, pocketList, count) ==
    LET availableArea ==
            Max(1, SumOf([i \in 1..Len(pocketList) |->
                            pocketList[i].rect.width * pocketList[i].rect.height]))
        areaPerItem == availableArea \div Max(1, IF count = 0 THEN 1 ELSE count)
        adaptiveBase == (Sqrt(areaPerItem) * 78) \div 100
    IN clamp(Max((shortestSide(canvas) * 16) \div 100, adaptiveBase),
             minStickerSize(canvas), maxStickerSize(canvas))

seedKeyOf(id, index) == NumStr(id) \o Dash \o NumStr(index)

\* proposeRect with desiredSize left unclamped
proposeRectUnclamped(pocket, seedKey, base, canvas) ==
    LET desiredSize == (base * randomFromHash(seedKey \o TagScale, 880, 1140)) \div PerMille
        pocketPadding == Min((desiredSize * 12) \div 100, 18)
        offsetXRange == Max(1, pocket.rect.width - desiredSize - pocketPadding * 2)
        offsetYRange == Max(1, pocket.rect.height - desiredSize - pocketPadding * 2)
        offsetX == pocket.rect.x + pocketPadding
                   + randomFromHash(seedKey \o TagOffsetX \o NumStr(pocket.usage), 0, offsetXRange)
        offsetY == pocket.rect.y + pocketPadding
                   + randomFromHash(seedKey \o TagOffsetY \o NumStr(pocket.usage), 0, offsetYRange)
    IN clampRect(Sq(offsetX, offsetY, desiredSize), canvas)

\* lines 129-147: the rectangle first proposed inside the selected pocket
proposeRect(pocket, seedKey, base, canvas) ==
    LET pocketCapacity == Max(60, Min(maxStickerSize(canvas), (pocket.maxSize * 105) \div 100))
        minForPocket == Min(minStickerSize(canvas), pocketCapacity)
        scale == randomFromHash(seedKey \o TagScale, 880, 1140)
        desiredSize == clamp((base * scale) \div PerMille,
                             Max(52, (minForPocket * 95) \div 100), pocketCapacity)
        pocketPadding == Min((desiredSize * 12) \div 100, 18)
        offsetXRange == Max(1, pocket.rect.width - desiredSize - pocketPadding * 2)
        offsetYRange == Max(1, pocket.rect.height - desiredSize - pocketPadding * 2)
        offsetX == pocket.rect.x + pocketPadding
                   + randomFromHash(seedKey \o TagOffsetX \o NumStr(pocket.usage), 0, offsetXRange)
        offsetY == pocket.rect.y + pocketPadding
                   + randomFromHash(seedKey \o TagOffsetY \o NumStr(pocket.usage), 0, offsetYRange)
    IN clampRect(Sq(offsetX, offsetY, desiredSize), canvas)

\* rotationOf that does not read the flag
rotationOfAlways(seedKey, enabled) ==
    (IF randomFromHash(seedKey \o TagRotationSign, 0, PerMille) >= 500 THEN 1 ELSE 0 - 1)
        * randomFromHash(seedKey \o TagRotationMag, 3000, 13000)

\* lines 156-160, in 1/1000 degree
rotationOf(seedKey, enabled) ==
    LET rotationSignSeed == IF randomFromHash(seedKey \o TagRotationSign, 0, PerMille) >= 500
                            THEN 1 ELSE 0 - 1
        rotationMagnitude == randomFromHash(seedKey \o TagRotationMag, 3000, 13000)
        flattenChance == randomFromHash(seedKey \o TagRotationFlat, 0, PerMille)
    IN IF enabled /\ flattenChance <= 900 THEN rotationSignSeed * rotationMagnitude ELSE 0

\* the position counted by size alone: items of equal size share it
layerIndexBySize(itemList, k) ==
    Cardinality({j \in 1..Len(itemList) : itemList[j].size < itemList[k].size})

\* lines 172-175: zIndex = 200 + position in the stable sort by ascending size
layerIndex(itemList, k) ==
    Cardinality({j \in 1..Len(itemList) :
                   itemList[j].size < itemList[k].size
                   \/ (itemList[j].size = itemList[k].size /\ j < k)})

\* assignLayers returning the size-sorted copy instead of the items
assignLayersSorted(itemList) ==
    [p \in 1..Len(itemList) |->
        LET k == CHOOSE k \in 1..Len(itemList) : layerIndex(itemList, k) = p - 1
        IN [itemList[k] EXCEPT !.zIndex = 200 + (p - 1)]]

assignLayers(itemList) ==
    [k \in 1..Len(itemList) |-> [itemList[k] EXCEPT !.zIndex = 200 + layerIndex(itemList, k)]]

-----------------------------------------------------------------------------
(* The layout pass as one function of its inputs (lines 110-178) *)

\* the locals of a pass before its first item (lines 112-113, 125)
freshPass(canvas, safeZones) ==
    [pockets |-> buildPockets(canvas, safeZones),
     densityMap |-> createDensityMap(canvas),
     placements |-> <<>>,
     items |-> <<>>]

\* lines 152-170: the accumulator, the pocket, the density map and the item
passPlaced(pass, chosen, rect, id, seedKey, rotationOn) ==
    [pockets |-> [k \in 1..Len(pass.pockets) |->
                    IF k = chosen
                    THEN [pass.pockets[k] EXCEPT !.usage = @ + 1,
                                                 !.usedArea = @ + rect.size * rect.size]
                    ELSE pass.pockets[k]],
     densityMap |-> applyDensity(pass.densityMap, rect),
     placements |-> Append(pass.placements, rect),
     items |-> Append(pass.items, [id |-> id, x |-> rect.x, y |-> rect.y,
                                   size |-> rect.size,
                                   rotation |-> rotationOf(seedKey, rotationOn),
                                   zIndex |-> 0])]

\* lines 148-151: push-out (when enabled) and overlap resolution
passResolved(pass, chosen, proposed, id, seedKey, canvas, safeZones, zonesOn, rotationOn) ==
    passPlaced(pass, chosen,
               resolveOverlaps(IF zonesOn
                               THEN keepOutsideSafeZones(proposed, safeZones, canvas)
                               ELSE proposed,
                               pass.placements, safeZones, canvas, seedKey, zonesOn),
               id, seedKey, rotationOn)

\* lines 129-147: the rectangle proposed inside the chosen pocket
passProposed(pass, chosen, id, seedKey, canvas, safeZones, zonesOn, rotationOn, count) ==
    passResolved(pass, chosen,
                 proposeRect(IF chosen = 0 THEN syntheticPocket ELSE pass.pockets[chosen],
                             seedKey, baseSize(canvas, pass.pockets, count), canvas),
                 id, seedKey, canvas, safeZones, zonesOn, rotationOn)

\* lines 126-128: one call of the map callback
passItem(pass, index, id, canvas, safeZones, zonesOn, rotationOn, count) ==
    passProposed(pass,
                 selectPocket(pass.pockets, index, seedKeyOf(id, index), pass.densityMap,
                              canvas),
                 id, seedKeyOf(id, index), canvas, safeZones, zonesOn, rotationOn, count)

\* the map with each callback seeded by the id of the submission after its own
RECURSIVE passItemsSeededByNext(_, _, _, _, _, _)
passItemsSeededByNext(n, ids, canvas, safeZones, zonesOn, rotationOn) ==
    IF n = 0 THEN freshPass(canvas, safeZones)
    ELSE passItem(passItemsSeededByNext(n - 1, ids, canvas, safeZones, zonesOn, rotationOn),
                  n - 1, ids[IF n < Len(ids) THEN n + 1 ELSE n], canvas, safeZones,
                  zonesOn, rotationOn, Len(ids))

\* lines 126-170: the map over the first n submissions
RECURSIVE passItems(_, _, _, _, _, _)
passItems(n, ids, canvas, safeZones, zonesOn, rotationOn) ==
    IF n = 0 THEN freshPass(canvas, safeZones)
    ELSE passItem(passItems(n - 1, ids, canvas, safeZones, zonesOn, rotationOn),
                  n - 1, ids[n], canvas, safeZones, zonesOn, rotationOn, Len(ids))

\* lines 110-178: the value of the memo for effective zones `safeZones`
layoutOf(ids, canvas, safeZones, zonesOn, rotationOn) ==
    assignLayers(passItems(Len(ids), ids, canvas, safeZones, zonesOn, rotationOn).items)

-----------------------------------------------------------------------------
(* Inputs delivered by the overlay feed *)

\* RESOLUTION_SPECS and custom resolutions
Canvas(i) ==
    CASE i = 1 -> [width |-> 1920, height |-> 1080]
      [] i = 2 -> [width |-> 1280, height |-> 720]
      [] i = 3 -> [width |-> 320, height |-> 50]
      [] i = 4 -> [width |-> 3840, height |-> 2160]
      [] OTHER -> [width |-> 640 + 40 * i, height |-> 360 + 20 * i]

\* custom resolutions with a side near the 28px margin and the pocket filters
TinyCanvas(i) ==
    CASE i = 1 -> [width |-> 320, height |-> 80]
      [] i = 2 -> [width |-> 80, height |-> 80]
      [] i = 3 -> [width |-> 56, height |-> 400]
      [] i = 4 -> [width |-> 120, height |-> 120]
      [] i = 5 -> [width |-> 100, height |-> 400]
      [] i = 6 -> [width |-> 200, height |-> 200]
      [] OTHER -> [width |-> 57 + 8 * i, height |-> 57 + 4 * i]

\* Safe-zone lists as scaleSafeZones leaves them: whole pixels, inside the canvas
ZoneConfig(i, canvas) ==
    LET w == canvas.width
        h == canvas.height
    IN CASE i = 1 -> \* the default zone of lines 81-86
                     <<Rect(RoundDiv(w * 25, 100), RoundDiv(h * 20, 100),
                            RoundDiv(w * 50, 100), RoundDiv(h * 60, 100))>>
         [] i = 2 -> \* a zone covering 95% of each side
                     <<Rect(RoundDiv(w * 25, 1000), RoundDiv(h * 25, 1000),
                            RoundDiv(w * 95, 100), RoundDiv(h * 95, 100))>>
         [] i = 3 -> \* two zones: a left column and a band across the middle
                     <<Rect(RoundDiv(w * 10, 100), 0, RoundDiv(w * 15, 100), h),
                       Rect(0, RoundDiv(h * 40, 100), w, RoundDiv(h * 25, 100))>>
         [] OTHER -> \* one zone leaving a strip at the left
                     <<Rect(RoundDiv(w * 8, 100) + i, 0, w - RoundDiv(w * 8, 100) - i, h)>>

\* ordered lists of distinct submission ids
IdList(j, n) == [k \in 1..n |-> 1000 * j + 37 * k]

\* effectiveSafeZones that does not read the enabled flag
effectiveSafeZonesConfigured == zones

\* lines 104-105
effectiveSafeZones == IF safeZoneEnabled THEN zones ELSE <<>>

-----------------------------------------------------------------------------
(* The state machine *)

\* The state when the feed has delivered its data and the memo is about to run
Feed(canvas, zoneList, zonesOn, rotationOn, ids) ==
    /\ canvasSize = canvas
    /\ zones = zoneList
    /\ safeZoneEnabled = zonesOn
    /\ rotationEnabled = rotationOn
    /\ submissions = ids
    /\ phase = "start"
    /\ pockets = <<>>
    /\ densityMap = createDensityMap(canvas)
    /\ placements = <<>>
    /\ items = <<>>
    /\ layout = <<>>
    /\ prevLayout = <<>>
    /\ passNo = 1
    /\ lastCall = <<>>
    /\ suspended = <<>>

Init ==
    \E c \in 1..NumCanvases, z \in 1..NumZoneConfigs, zonesOn \in BOOLEAN,
       rotationOn \in BOOLEAN, j \in 1..NumIdLists, n \in 0..MaxItems :
        Feed(Canvas(c), ZoneConfig(z, Canvas(c)), zonesOn, rotationOn, IdList(j, n))

\* StartPass keeping the pockets of the pass before (usage and usedArea
\* included) instead of building them again
StartPassReusingPockets ==
    /\ phase = "start"
    /\ pockets' = IF pockets = <<>> THEN buildPockets(canvasSize, effectiveSafeZones)
                  ELSE pockets
    /\ densityMap' = createDensityMap(canvasSize)
    /\ placements' = <<>>
    /\ items' = <<>>
    /\ phase' = "placing"
    /\ lastCall' = <<>>
    /\ UNCHANGED <<canvasSize, zones, safeZoneEnabled, rotationEnabled, submissions,
                   layout, prevLayout, passNo, suspended>>

\* lines 112-125: the pass builds its own pockets, density map and accumulator
StartPass ==
    /\ phase = "start"
    /\ pockets' = buildPockets(canvasSize, effectiveSafeZones)
    /\ densityMap' = createDensityMap(canvasSize)
    /\ placements' = <<>>
    /\ items' = <<>>
    /\ phase' = "placing"
    /\ lastCall' = <<>>
    /\ UNCHANGED <<canvasSize, zones, safeZoneEnabled, rotationEnabled, submissions,
                   layout, prevLayout, passNo, suspended>>

\* PlaceItem that, on an overlap above the tolerance, charges the pocket and
\* tries the same item again
PlaceItemRetrying ==
    /\ phase = "placing"
    /\ Len(items) < Len(submissions)
    /\ LET index == Len(items)
           id == submissions[index + 1]
           seedKey == seedKeyOf(id, index)
           base == baseSize(canvasSize, pockets, Len(submissions))
       IN \E chosen \in {selectPocket(pockets, index, seedKey, densityMap, canvasSize)} :
          \E pocket \in {IF chosen = 0 THEN syntheticPocket ELSE pockets[chosen]} :
          \E proposed \in {proposeRect(pocket, seedKey, base, canvasSize)} :
          \E pushed \in {IF safeZoneEnabled
                         THEN keepOutsideSafeZones(proposed, effectiveSafeZones, canvasSize)
                         ELSE proposed} :
          \E rect \in {resolveOverlaps(pushed, placements, effectiveSafeZones, canvasSize,
                                       seedKey, safeZoneEnabled)} :
             /\ lastCall' = <<[pocket |-> pocket, proposed |-> proposed,
                               pushed |-> pushed, rect |-> rect, chosen |-> chosen,
                               pockets |-> pockets, densityMap |-> densityMap]>>
             /\ IF overlapScore(rect, placements) > MAX_OVERLAP_RATIO
                THEN /\ pockets' = [k \in 1..Len(pockets) |->
                                      IF k = chosen THEN [pockets[k] EXCEPT !.usage = @ + 1]
                                      ELSE pockets[k]]
                     /\ UNCHANGED <<placements, densityMap, items>>
                ELSE /\ placements' = Append(placements, rect)
                     /\ pockets' = [k \in 1..Len(pockets) |->
                                      IF k = chosen
                                      THEN [pockets[k] EXCEPT !.usage = @ + 1,
                                                              !.usedArea = @ + rect.size * rect.size]
                                      ELSE pockets[k]]
                     /\ densityMap' = applyDensity(densityMap, rect)
                     /\ items' = Append(items, [id |-> id, x |-> rect.x, y |-> rect.y,
                                                size |-> rect.size,
                                                rotation |-> rotationOf(seedKey, rotationEnabled),
                                                zIndex |-> 0])
    /\ UNCHANGED <<canvasSize, zones, safeZoneEnabled, rotationEnabled, submissions,
                   phase, layout, prevLayout, passNo, suspended>>

\* the bookkeeping charged to the first pocket of the list instead of the
\* selected one
chargeFirst(list, chosen, rect) ==
    [k \in 1..Len(list) |->
       IF k = 1
       THEN [list[k] EXCEPT !.usage = @ + 1, !.usedArea = @ + rect.size * rect.size]
       ELSE list[k]]

\* lines 153-154: pocket.usage += 1; pocket.usedArea += rect.size * rect.size,
\* on the pocket object selectPocket returned (position `chosen` of the list)
charge(list, chosen, rect) ==
    [k \in 1..Len(list) |->
       IF k = chosen
       THEN [list[k] EXCEPT !.usage = @ + 1, !.usedArea = @ + rect.size * rect.size]
       ELSE list[k]]

\* lines 126-170: the map callback for the next submission, statement by
\* statement
PlaceItem ==
    /\ phase = "placing"
    /\ Len(items) < Len(submissions)
    /\ LET index == Len(items)
           id == submissions[index + 1]
           seedKey == seedKeyOf(id, index)
           base == baseSize(canvasSize, pockets, Len(submissions))
       IN \E chosen \in {selectPocket(pockets, index, seedKey, densityMap, canvasSize)} :
          \E pocket \in {IF chosen = 0 THEN syntheticPocket ELSE pockets[chosen]} :
          \E proposed \in {proposeRect(pocket, seedKey, base, canvasSize)} :
          \E pushed \in {IF safeZoneEnabled
                         THEN keepOutsideSafeZones(proposed, effectiveSafeZones, canvasSize)
                         ELSE proposed} :
          \E rect \in {resolveOverlaps(pushed, placements, effectiveSafeZones, canvasSize,
                                       seedKey, safeZoneEnabled)} :
             /\ placements' = Append(placements, rect)
             /\ pockets' = charge(pockets, chosen, rect)
             /\ densityMap' = applyDensity(densityMap, rect)
             /\ items' = Append(items, [id |-> id, x |-> rect.x, y |-> rect.y,
                                        size |-> rect.size,
                                        rotation |-> rotationOf(seedKey, rotationEnabled),
                                        zIndex |-> 0])
             /\ lastCall' = <<[pocket |-> pocket, proposed |-> proposed,
                               pushed |-> pushed, rect |-> rect, chosen |-> chosen,
                               pockets |-> pockets, densityMap |-> densityMap]>>
    /\ UNCHANGED <<canvasSize, zones, safeZoneEnabled, rotationEnabled, submissions,
                   phase, layout, prevLayout, passNo, suspended>>

\* lines 172-177: z-order through a size-sorted copy, the items are returned
AssignLayers ==
    /\ phase = "placing"
    /\ Len(items) = Len(submissions)
    /\ items' = assignLayers(items)
    /\ layout' = items'
    /\ phase' = "done"
    /\ UNCHANGED <<canvasSize, zones, safeZoneEnabled, rotationEnabled, submissions,
                   pockets, densityMap, placements, prevLayout, passNo, lastCall, suspended>>

\* refetchInterval (line 52): the feed is fetched again, with the same
\* settings and submissions, and the memo runs a new pass
Refetch ==
    /\ phase = "done"
    /\ passNo < MaxPasses
    /\ passNo' = passNo + 1
    /\ prevLayout' = layout
    /\ phase' = "start"
    /\ UNCHANGED <<canvasSize, zones, safeZoneEnabled, rotationEnabled, submissions,
                   pockets, densityMap, placements, items, layout, lastCall, suspended>>

\* Switch that leaves the placement accumulator where it is, as if both passes
\* pushed to one list
SwitchSharingPlacements ==
    /\ phase # "start" \/ suspended = <<>>
    /\ \E next \in {IF suspended = <<>>
                     THEN [phase |-> "start", pockets |-> <<>>,
                           densityMap |-> createDensityMap(canvasSize),
                           placements |-> <<>>, items |-> <<>>, layout |-> <<>>,
                           interleaved |-> FALSE]
                     ELSE suspended[1]} :
          /\ suspended' = <<[phase |-> phase, pockets |-> pockets,
                             densityMap |-> densityMap, placements |-> placements,
                             items |-> items, layout |-> layout,
                             interleaved |-> \/ next.interleaved
                                             \/ /\ phase = "placing"
                                                /\ 0 < Len(items)
                                                /\ Len(items) < Len(submissions)]>>
          /\ phase' = next.phase
          /\ pockets' = next.pockets
          /\ densityMap' = next.densityMap
          /\ items' = next.items
          /\ layout' = next.layout
    /\ lastCall' = <<>>
    /\ UNCHANGED <<canvasSize, zones, safeZoneEnabled, rotationEnabled, submissions,
                   placements, prevLayout, passNo>>

\* lines 110-126: the locals of a pass belong to that call of the memo callback;
\* another pass over the same inputs runs its steps between the steps of this
\* one, each pass on its own pockets, density map, accumulator and items
Switch ==
    /\ phase # "start" \/ suspended = <<>>
    /\ \E next \in {IF suspended = <<>>
                     THEN [phase |-> "start", pockets |-> <<>>,
                           densityMap |-> createDensityMap(canvasSize),
                           placements |-> <<>>, items |-> <<>>, layout |-> <<>>,
                           interleaved |-> FALSE]
                     ELSE suspended[1]} :
          /\ suspended' = <<[phase |-> phase, pockets |-> pockets,
                             densityMap |-> densityMap, placements |-> placements,
                             items |-> items, layout |-> layout,
                             interleaved |-> \/ next.interleaved
                                             \/ /\ phase = "placing"
                                                /\ 0 < Len(items)
                                                /\ Len(items) < Len(submissions)]>>
          /\ phase' = next.phase
          /\ pockets' = next.pockets
          /\ densityMap' = next.densityMap
          /\ placements' = next.placements
          /\ items' = next.items
          /\ layout' = next.layout
    /\ lastCall' = <<>>
    /\ UNCHANGED <<canvasSize, zones, safeZoneEnabled, rotationEnabled, submissions,
                   prevLayout, passNo>>

Next == StartPass \/ PlaceItem \/ AssignLayers \/ Refetch

Spec == Init /\ [][Next]_vars

\* Scenario 1: 1920x1080, safe zones disabled, 5 items
InitScenario1 ==
    \E rotationOn \in BOOLEAN, j \in 1..ScenarioIdLists :
        Feed(Canvas(1), ZoneConfig(1, Canvas(1)), FALSE, rotationOn, IdList(j, 5))
SpecScenario1 == InitScenario1 /\ [][Next]_vars

\* Scenario 2: 1920x1080, the zone {480, 216, 960, 648} enabled, 10 items
InitScenario2 ==
    \E rotationOn \in BOOLEAN, j \in 1..ScenarioIdLists :
        Feed(Canvas(1), <<Rect(480, 216, 960, 648)>>, TRUE, rotationOn, IdList(j, 10))
SpecScenario2 == InitScenario2 /\ [][Next]_vars

\* Scenario 5: 1280x720, 60 items
InitScenario5 ==
    \E zonesOn \in BOOLEAN, j \in 1..CrowdIdLists :
        Feed(Canvas(2), ZoneConfig(1, Canvas(2)), zonesOn, TRUE, IdList(j, 60))
SpecScenario5 == InitScenario5 /\ [][Next]_vars

\* Two passes over the same inputs, their steps interleaved
InitTwoPasses ==
    \E c \in 1..NumCanvases, zonesOn \in BOOLEAN, n \in 0..MaxItems :
        Feed(Canvas(c), ZoneConfig(1, Canvas(c)), zonesOn, FALSE, IdList(1, n))
NextTwoPasses == StartPass \/ PlaceItem \/ AssignLayers \/ Switch
SpecTwoPasses == InitTwoPasses /\ [][NextTwoPasses]_vars

\* Custom resolutions close to the margins of buildPockets
InitTiny ==
    \E c \in 1..NumTinyCanvases, z \in 1..NumZoneConfigs, zonesOn \in BOOLEAN,
       n \in 0..MaxTinyItems :
        Feed(TinyCanvas(c), ZoneConfig(z, TinyCanvas(c)), zonesOn, FALSE, IdList(1, n))
SpecTiny == InitTiny /\ [][Next]_vars

\* The geometry helpers applied to rectangles drawn from a grid over the canvas
InitGeometry ==
    \E c \in 1..NumCanvases, z \in 1..NumZoneConfigs :
        Feed(Canvas(c), ZoneConfig(z, Canvas(c)), TRUE, FALSE, <<>>)

\* sticker sizes from the floor of keepOutsideSingleZone upward
ProbeSize(k) == 48 + 52 * (k - 1)

\* keepOutsideSafeZones (lines 604-672) applied to a square of the grid
ApplyKeepOutsideSafeZones ==
    /\ lastCall = <<>>
    /\ \E i \in 0..ProbeCols, j \in 0..ProbeRows, k \in 1..NumProbeSizes :
          \E rect \in {Sq((i * canvasSize.width) \div ProbeCols,
                           (j * canvasSize.height) \div ProbeRows, ProbeSize(k))} :
             lastCall' = <<[op |-> "keepOutsideSafeZones", rect |-> rect,
                            result |-> keepOutsideSafeZones(rect, zones, canvasSize)]>>
    /\ UNCHANGED <<canvasSize, zones, safeZoneEnabled, rotationEnabled, submissions, phase,
                   pockets, densityMap, placements, items, layout, prevLayout, passNo,
                   suspended>>

\* padSafeZone (lines 906-916) applied to a zone inside the canvas, at 0, 16,
\* 32, ... px from the left and the top edge
ApplyPadSafeZone ==
    /\ lastCall = <<>>
    /\ \E i \in 0..NumZoneOffsets, j \in 0..NumZoneOffsets,
          k \in 1..NumZoneSpans, l \in 1..NumZoneSpans :
          \E zone \in {Rect(16 * i, 16 * j,
                            (canvasSize.width * k) \div (NumZoneSpans + 1),
                            (canvasSize.height * l) \div (NumZoneSpans + 1))} :
             /\ zone.x + zone.width <= canvasSize.width
             /\ zone.y + zone.height <= canvasSize.height
             /\ lastCall' = <<[op |-> "padSafeZone", zone |-> zone,
                               result |-> padSafeZone(zone, SAFE_ZONE_PADDING, canvasSize)]>>
    /\ UNCHANGED <<canvasSize, zones, safeZoneEnabled, rotationEnabled, submissions, phase,
                   pockets, densityMap, placements, items, layout, prevLayout, passNo,
                   suspended>>

\* sampleDensity (lines 398-413) applied to a rectangle of the grid, on the
\* map of a pass that has placed one square of 260px
ApplySampleDensity ==
    /\ lastCall = <<>>
    /\ \E m \in 1..NumProbeSizes, i \in 0..ProbeCols, j \in 0..ProbeRows,
          k \in 1..NumProbeSizes :
          \E map \in {applyDensity(createDensityMap(canvasSize),
                                    Sq((m * canvasSize.width) \div (NumProbeSizes + 1),
                                       (m * canvasSize.height) \div (NumProbeSizes + 1),
                                       260))} :
          \E rect \in {Rect((i * canvasSize.width) \div ProbeCols,
                            (j * canvasSize.height) \div ProbeRows,
                            (k * canvasSize.width) \div ProbeCols,
                            (k * canvasSize.height) \div ProbeRows)} :
             lastCall' = <<[op |-> "sampleDensity", map |-> map, rect |-> rect,
                            result |-> sampleDensity(map, rect)]>>
    /\ UNCHANGED <<canvasSize, zones, safeZoneEnabled, rotationEnabled, submissions, phase,
                   pockets, densityMap, placements, items, layout, prevLayout, passNo,
                   suspended>>

\* positions per axis for the rectangles given to resolveOverlaps
ProbeSpots == 3

\* resolveOverlaps (lines 766-820) applied to a square that the push-out has
\* moved out of the zones, against one placement made at the same spot
ApplyResolveOverlaps ==
    /\ lastCall = <<>>
    /\ \E i \in 1..ProbeSpots, j \in 1..ProbeSpots,
          k \in 1..NumProbeSizes, m \in 1..NumProbeSizes :
          \E rect \in {keepOutsideSafeZones(
                           Sq((i * canvasSize.width) \div (ProbeSpots + 1),
                              (j * canvasSize.height) \div (ProbeSpots + 1), ProbeSize(k)),
                           zones, canvasSize)} :
          \E placed \in {keepOutsideSafeZones(
                             Sq((i * canvasSize.width) \div (ProbeSpots + 1),
                                (j * canvasSize.height) \div (ProbeSpots + 1), ProbeSize(m)),
                             zones, canvasSize)} :
             lastCall' = <<[op |-> "resolveOverlaps", rect |-> rect,
                            existing |-> <<placed>>,
                            result |-> resolveOverlaps(rect, <<placed>>, zones, canvasSize,
                                                       seedKeyOf(IdList(1, 1)[1], 1), TRUE)]>>
    /\ UNCHANGED <<canvasSize, zones, safeZoneEnabled, rotationEnabled, submissions, phase,
                   pockets, densityMap, placements, items, layout, prevLayout, passNo,
                   suspended>>

NextGeometry ==
    \/ ApplyKeepOutsideSafeZones
    \/ ApplyPadSafeZone
    \/ ApplySampleDensity
    \/ ApplyResolveOverlaps
SpecGeometry == InitGeometry /\ [][NextGeometry]_vars

\* subtractRect (lines 322-370) applied to rectangles of a small integer
\* grid, where strips one unit wide occur
InitSubtract == Feed(Canvas(1), <<>>, FALSE, FALSE, <<>>)

ApplySubtractRect ==
    /\ lastCall = <<>>
    /\ \E sw \in 2..(SubGrid + 2), sh \in 2..(SubGrid + 2), x \in 0..SubGrid, y \in 0..SubGrid,
          w \in 1..SubGrid, h \in 1..SubGrid :
          lastCall' = <<[op |-> "subtractRect", source |-> Rect(1, 1, sw, sh),
                         cut |-> Rect(x, y, w, h),
                         result |-> subtractRect(Rect(1, 1, sw, sh), Rect(x, y, w, h))]>>
    /\ UNCHANGED <<canvasSize, zones, safeZoneEnabled, rotationEnabled, submissions, phase,
                   pockets, densityMap, placements, items, layout, prevLayout, passNo,
                   suspended>>

NextSubtract == ApplySubtractRect
SpecSubtract == InitSubtract /\ [][NextSubtract]_vars

-----------------------------------------------------------------------------
(* Properties *)

\* the square and the rectangle share interior points
Intersects(sq, rect) ==
    /\ sq.x < rect.x + rect.width
    /\ rect.x < sq.x + sq.size
    /\ sq.y < rect.y + rect.height
    /\ rect.y < sq.y + sq.size

\* the zones as the claims pad them: 32 px on every side, cut at the canvas
PaddedZones == [i \in 1..Len(zones) |-> padSafeZone(zones[i], 32, canvasSize)]

SafeZoneAvoidance ==
    safeZoneEnabled =>
        \A k \in 1..Len(placements) :
            (\E i \in 1..Len(zones) : Intersects(placements[k], PaddedZones[i]))
                => placements[k].exhausted

SafeZoneAvoidanceWitness ==
    /\ phase = "done"
    /\ safeZoneEnabled
    /\ canvasSize.height >= 720
    /\ Len(zones) = 2
    /\ Len(placements) >= 3
    /\ \A k \in 1..Len(placements) : ~placements[k].exhausted

Determinism == (phase = "done" /\ passNo > 1) => layout = prevLayout

DeterminismWitness ==
    /\ phase = "done"
    /\ passNo > 1
    /\ Len(layout) >= 3
    /\ \E k \in 1..Len(pockets) : pockets[k].usage >= 2

\* C5 z-order: of two items of different size, the smaller one has the
\* higher zIndex.
SmallerInFront ==
    phase = "done" =>
        \A a, b \in 1..Len(layout) :
            layout[a].size < layout[b].size => layout[a].zIndex > layout[b].zIndex

\* C6 output shape: N placements for N items, the i-th carrying the id of
\* the i-th item.
OutputShape ==
    phase = "done" =>
        /\ Len(layout) = Len(submissions)
        /\ \A i \in 1..Len(layout) : layout[i].id = submissions[i]

OutputShapeWitness ==
    /\ phase = "done"
    /\ Len(layout) >= 3
    /\ \E a, b \in 1..Len(layout) : a < b /\ layout[a].size > layout[b].size

\* C7 size bounds as claimed: minStickerSize <= size <= maxStickerSize for
\* every placement.
SizeBounds ==
    \A k \in 1..Len(placements) :
        /\ Max(68, RoundDiv(Min(canvasSize.width, canvasSize.height) * 8, 100))
             <= placements[k].size
        /\ placements[k].size
             <= Min(260, RoundDiv(Min(canvasSize.width, canvasSize.height) * 28, 100))

\* C7 size bounds as the code keeps them: 48 <= size <= max(60, maxStickerSize).
SizeBoundsAmended ==
    \A k \in 1..Len(placements) :
        /\ 48 <= placements[k].size
        /\ placements[k].size
             <= Max(60, Min(260, RoundDiv(Min(canvasSize.width, canvasSize.height) * 28, 100)))

SizeBoundsWitness ==
    /\ phase = "done"
    /\ canvasSize.height >= 360
    /\ Len(placements) >= 3
    /\ \E k \in 1..Len(placements) :
          placements[k].size
            < Max(68, RoundDiv(Min(canvasSize.width, canvasSize.height) * 8, 100))

MonotonicSizing ==
    pockets # <<>> =>
        \A n \in 0..MaxCount :
            baseSize(canvasSize, pockets, n + 1) <= baseSize(canvasSize, pockets, n)

MonotonicSizingWitness ==
    /\ Len(items) >= 1
    /\ \E n \in 0..MaxCount :
          baseSize(canvasSize, pockets, n + 1) < baseSize(canvasSize, pockets, n)

\* C10 scenario 2 (1920x1080, zone {480, 216, 960, 648}, 10 items): no
\* placement intersects the zone padded by 32 px, none comes from the
\* exhaustion fallback.
Scenario2Clear ==
    \A k \in 1..Len(placements) :
        /\ ~Intersects(placements[k], Rect(448, 184, 1024, 712))
        /\ ~placements[k].exhausted

Scenario2ClearWitness ==
    /\ phase = "done"
    /\ safeZoneEnabled
    /\ zones = <<Rect(480, 216, 960, 648)>>
    /\ Len(layout) = 10
    /\ \E k \in 1..Len(placements) :
          placements[k].x + placements[k].size <= 448 /\ placements[k].y + placements[k].size > 184
             /\ placements[k].y < 896

\* the rectangle covers the whole canvas of the pass
CoversCanvas(rect) ==
    /\ rect.x <= 0
    /\ rect.y <= 0
    /\ rect.x + rect.width >= canvasSize.width
    /\ rect.y + rect.height >= canvasSize.height

\* an enabled safe zone whose padded rectangle covers the whole canvas
DegenerateZone ==
    /\ safeZoneEnabled
    /\ \E i \in 1..Len(zones) : CoversCanvas(PaddedZones[i])

\* C11 degenerate safe zone, pockets: when an enabled zone's padded rectangle
\* covers the whole canvas, the pass's pocket list is exactly one pocket and
\* its rect is the full canvas {0, 0, width, height}.
DegeneratePockets ==
    (phase # "start" /\ DegenerateZone) =>
        /\ Len(pockets) = 1
        /\ pockets[1].rect = Rect(0, 0, canvasSize.width, canvasSize.height)

\* C12 degenerate safe zone, avoidance: when an enabled zone's padded rectangle
\* covers the whole canvas, the push-out neither moves nor shrinks the
\* candidate rectangle, and the placement is the one the map callback makes
\* without the push-out.
DegenerateAvoidanceOff ==
    (DegenerateZone /\ lastCall # <<>>) =>
        /\ lastCall[1].pushed.x = lastCall[1].proposed.x
        /\ lastCall[1].pushed.y = lastCall[1].proposed.y
        /\ lastCall[1].pushed.size = lastCall[1].proposed.size
        /\ lastCall[1].rect =
               resolveOverlaps(lastCall[1].proposed,
                               SubSeq(placements, 1, Len(placements) - 1), <<>>, canvasSize,
                               seedKeyOf(submissions[Len(placements)], Len(placements) - 1),
                               FALSE)

\* C13 pockets never empty: the pass's pocket list holds at least one pocket,
\* and the pocket selectPocket returned for the last item is a member of that
\* list (as it was before the item was charged to it).
PocketsNeverEmpty ==
    phase # "start" =>
        /\ Len(pockets) >= 1
        /\ lastCall # <<>> =>
               \E k \in 1..Len(pockets) :
                   [pockets[k] EXCEPT !.usage = lastCall[1].pocket.usage,
                                      !.usedArea = lastCall[1].pocket.usedArea]
                       = lastCall[1].pocket

\* an item placed from the fallback pocket over baseRect (lines 309-319)
PocketsNeverEmptyWitness ==
    /\ lastCall # <<>>
    /\ lastCall[1].pocket.name = NameFallback
    /\ lastCall[1].pocket.rect.x = 28
    /\ Len(pockets) = 1

\* C14 rotation: with rotation disabled every item has rotation 0; with it
\* enabled every rotation is 0 or has absolute value within [3, 13] degrees
\* (in 1/1000 degree); and the rotation is the function of the item's seed key
\* (id + index) and the flag, whatever the canvas, the zones and the other
\* items are.
RotationRange ==
    \A k \in 1..Len(items) :
        /\ ~rotationEnabled => items[k].rotation = 0
        /\ rotationEnabled =>
               \/ items[k].rotation = 0
               \/ 3000 <= items[k].rotation /\ items[k].rotation <= 13000
               \/ 0 - 13000 <= items[k].rotation /\ items[k].rotation <= 0 - 3000
        /\ \A id \in {items[k].id} :
               items[k].rotation = rotationOf(seedKeyOf(id, k - 1), rotationEnabled)

\* a finished pass with rotation enabled and safe zones enabled in which items
\* were turned to the left and to the right
RotationRangeWitness ==
    /\ phase = "done"
    /\ rotationEnabled
    /\ safeZoneEnabled
    /\ \E k \in 1..Len(items) : items[k].rotation > 0
    /\ \E k \in 1..Len(items) : items[k].rotation < 0

\* C15 per-pass isolation: a pass that has placed nothing yet has every pocket
\* at usage 0 and usedArea 0, every density cell at 0 and no placement; and
\* each of two interleaved passes ends with the layout the pass yields when it
\* runs alone.
PassIsolation ==
    /\ (phase = "placing" /\ Len(items) = 0) =>
           /\ \A k \in 1..Len(pockets) : pockets[k].usage = 0 /\ pockets[k].usedArea = 0
           /\ \A k \in 1..Len(densityMap.values) : densityMap.values[k] = 0
           /\ placements = <<>>
    /\ phase = "done" =>
           layout = layoutOf(submissions, canvasSize, effectiveSafeZones, safeZoneEnabled,
                             rotationEnabled)
    /\ (suspended # <<>> /\ phase = "done") => suspended[1].phase # "done" \/ suspended[1].layout = layout

\* both passes have finished, one of them was suspended between two of its items
PassIsolationWitness ==
    /\ phase = "done"
    /\ suspended # <<>>
    /\ suspended[1].phase = "done"
    /\ suspended[1].interleaved
    /\ Len(layout) >= 2

\* C16 disabled safe zones are ignored: with the enabled flag false, the layout
\* of a finished pass is the layout of the same pass with an empty zone list,
\* whatever zone rectangles are configured.
DisabledZonesIgnored ==
    (~safeZoneEnabled /\ phase = "done") =>
        layout = layoutOf(submissions, canvasSize, <<>>, FALSE, rotationEnabled)

\* a finished pass with zones configured but disabled, whose layout would be
\* another one with the zones enabled
DisabledZonesIgnoredWitness ==
    /\ ~safeZoneEnabled
    /\ phase = "done"
    /\ Len(zones) >= 1
    /\ Len(layout) >= 2
    /\ layout # layoutOf(submissions, canvasSize, zones, TRUE, rotationEnabled)

\* C17 push-out frame condition: for a rectangle that, clamped to the canvas,
\* intersects no safe zone padded by 32px, keepOutsideSafeZones returns the
\* clamped rectangle with x, y and size unchanged.
PushOutFrame ==
    (lastCall # <<>> /\ lastCall[1].op = "keepOutsideSafeZones") =>
        \A clamped \in {clampRect(lastCall[1].rect, canvasSize)} :
            (\A i \in 1..Len(zones) : ~Intersects(clamped, PaddedZones[i])) =>
                /\ lastCall[1].result.x = clamped.x
                /\ lastCall[1].result.y = clamped.y
                /\ lastCall[1].result.size = clamped.size

\* C18 safe-zone padding: padSafeZone(zone, 32, canvas) is the zone grown by
\* 32px on each of its four sides and intersected with the canvas; its right
\* and bottom edges are at most 32px beyond the zone's right and bottom edges.
PaddingExact ==
    (lastCall # <<>> /\ lastCall[1].op = "padSafeZone") =>
        \A zone \in {lastCall[1].zone} : \A padded \in {lastCall[1].result} :
            /\ padded.x = Max(0, zone.x - 32)
            /\ padded.y = Max(0, zone.y - 32)
            /\ padded.x + padded.width = Min(canvasSize.width, zone.x + zone.width + 32)
            /\ padded.y + padded.height = Min(canvasSize.height, zone.y + zone.height + 32)
            /\ padded.x + padded.width <= zone.x + zone.width + 32
            /\ padded.y + padded.height <= zone.y + zone.height + 32

\* the unit cell at (px, py) lies in the rectangle
CellIn(px, py, rect) ==
    /\ rect.x <= px
    /\ px < rect.x + rect.width
    /\ rect.y <= py
    /\ py < rect.y + rect.height

\* the two rectangles share interior points
RectsMeet(a, b) ==
    /\ a.x < b.x + b.width
    /\ b.x < a.x + a.width
    /\ a.y < b.y + b.height
    /\ b.y < a.y + a.height

\* the side of `cut` a piece of `source` lies on: 1 top, 2 bottom, 3 left,
\* 4 right, 0 none
SideOf(piece, cut) ==
    CASE piece.y + piece.height <= cut.y -> 1
      [] piece.y >= cut.y + cut.height -> 2
      [] piece.x + piece.width <= cut.x -> 3
      [] piece.x >= cut.x + cut.width -> 4
      [] OTHER -> 0

\* C19 rectangle subtraction: subtractRect returns at most 4 rectangles in the
\* order top, bottom, left, right; each lies inside source, none intersects
\* cut, they are pairwise disjoint, and every cell of source outside cut that
\* they do not cover lies in a strip of width or height <= 1 beside the cut;
\* when source and cut do not intersect the result is <<source>>.
SubtractionSound ==
    (lastCall # <<>> /\ lastCall[1].op = "subtractRect") =>
        \A source \in {lastCall[1].source} : \A cut \in {lastCall[1].cut} :
        \A result \in {lastCall[1].result} :
            IF ~RectsMeet(source, cut) THEN result = <<source>>
            ELSE /\ Len(result) <= 4
                 /\ \A i \in 1..Len(result) :
                       /\ SideOf(result[i], cut) # 0
                       /\ \A j \in 1..Len(result) :
                             i < j => /\ SideOf(result[i], cut) < SideOf(result[j], cut)
                                      /\ ~RectsMeet(result[i], result[j])
                       /\ result[i].width > 0 /\ result[i].height > 0
                       /\ source.x <= result[i].x
                       /\ source.y <= result[i].y
                       /\ result[i].x + result[i].width <= source.x + source.width
                       /\ result[i].y + result[i].height <= source.y + source.height
                       /\ ~RectsMeet(result[i], cut)
                 /\ \A px \in 0..(2 * SubGrid), py \in 0..(2 * SubGrid) :
                       (CellIn(px, py, source) /\ ~CellIn(px, py, cut)) =>
                           \/ \E i \in 1..Len(result) : CellIn(px, py, result[i])
                           \/ py < cut.y /\ cut.y - source.y <= 1
                           \/ py >= cut.y + cut.height
                              /\ source.y + source.height - (cut.y + cut.height) <= 1
                           \/ /\ cut.y <= py
                              /\ py < cut.y + cut.height
                              /\ \/ px < cut.x /\ cut.x - source.x <= 1
                                 \/ px >= cut.x + cut.width
                                    /\ source.x + source.width - (cut.x + cut.width) <= 1
                                 \/ Min(source.y + source.height, cut.y + cut.height)
                                       - Max(source.y, cut.y) <= 1

\* a cut inside the source that leaves four pieces
SubtractionSoundWitness ==
    /\ lastCall # <<>>
    /\ lastCall[1].op = "subtractRect"
    /\ Len(lastCall[1].result) = 4

\* C20 pocket capacity: the edge length proposed for an item is at most the
\* maxSize of the pocket selected for it, and that maxSize is at most the
\* shorter side of the pocket's rect.
PocketCapacity ==
    (phase = "placing" /\ lastCall # <<>>) =>
        /\ lastCall[1].proposed.size <= lastCall[1].pocket.maxSize
        /\ lastCall[1].pocket.maxSize
              <= Min(lastCall[1].pocket.rect.width, lastCall[1].pocket.rect.height)

\* the seed is `prefix` followed by at least one more code unit
HasPrefix(seed, prefix) ==
    /\ Len(seed) > Len(prefix)
    /\ SubSeq(seed, 1, Len(prefix)) = prefix

\* lines 127-158 and 609-632: the seeds the map callback passed to
\* randomFromHash for the item placed last, in its own statements and in its
\* call of keepOutsideSafeZones
LastItemSeeds ==
    {seedKeyOf(submissions[Len(items)], Len(items) - 1) \o tag :
        tag \in {TagScale, TagOffsetX \o NumStr(lastCall[1].pocket.usage),
                 TagOffsetY \o NumStr(lastCall[1].pocket.usage),
                 TagRotationSign, TagRotationMag, TagRotationFlat,
                 TagPocketChoice \o NumStr(Len(items) - 1)}}
    \cup (IF safeZoneEnabled
          THEN pushOutSeeds(lastCall[1].proposed, effectiveSafeZones, canvasSize)
          ELSE {})

\* C21 seed construction: every seed passed to randomFromHash for an item
\* is the item's identity (submission id + index) followed by a purpose tag.
SeedsCarryIdentity ==
    (phase = "placing" /\ lastCall # <<>>) =>
        \A seed \in LastItemSeeds :
            HasPrefix(seed, seedKeyOf(submissions[Len(items)], Len(items) - 1))

\* the pocket was made from an edge band (its name starts with "edge-")
IsEdgeBand(pocket) ==
    /\ Len(pocket.name) >= 5
    /\ SubSeq(pocket.name, 1, 5) = SubSeq(NameEdgeTop, 1, 4) \o Dash

\* C22 edge-band priority: in the pocket list of a pass every edge-band pocket
\* has a priority strictly higher than every pocket that is not an edge band.
EdgeBandPriority ==
    phase # "start" =>
        \A i \in 1..Len(pockets), j \in 1..Len(pockets) :
            (IsEdgeBand(pockets[i]) /\ ~IsEdgeBand(pockets[j])) =>
                pockets[i].priority > pockets[j].priority

\* the scores of the 4 * 19 ring candidates of resolveOverlaps, in the order of
\* lines 781-817
RingScores(rect, existing, safeZones, canvas, seed, respectSafeZone) ==
    [n \in 1..(4 * 19) |->
        overlapScore(ringCandidate(rect, shrunkSizeAt(rect.size, (n - 1) \div 19),
                                   (n - 1) \div 19, (n - 1) % 19, safeZones, canvas, seed,
                                   respectSafeZone),
                     existing)] \o <<>>

\* the scores of the 42 samples of findLowOverlapPlacement, in the order of
\* lines 885-900
FallbackScores(seedCandidate, existing, safeZones, canvas, seed, respectSafeZone) ==
    [a \in 1..42 |->
        overlapScore(fallbackCandidate(seedCandidate, a - 1, safeZones, canvas, seed,
                                       respectSafeZone),
                     existing)] \o <<>>

\* the first position whose score is at most `limit`; Len(scores) if none is
FirstAtMost(scores, limit) ==
    IF \A n \in 1..Len(scores) : scores[n] > limit THEN Len(scores)
    ELSE CHOOSE n \in 1..Len(scores) :
            /\ scores[n] <= limit
            /\ \A m \in 1..(n - 1) : scores[m] > limit

\* the first position of lowest score
FirstLowest(scores) ==
    CHOOSE n \in 1..Len(scores) :
        /\ \A m \in 1..Len(scores) : scores[n] <= scores[m]
        /\ \A m \in 1..(n - 1) : scores[m] > scores[n]

\* `score` is at most the scores up to the first one within `limit`
AtMostEvaluated(score, scores, limit) ==
    \A n \in 1..FirstAtMost(scores, limit) : score <= scores[n]

\* the result is no worse than the ring candidates evaluated and, when no ring
\* candidate met the tolerance, than the fallback samples evaluated
BestOfEvaluated(score, rect, rings, existing, safeZones, canvas, seed, respectSafeZone) ==
    /\ AtMostEvaluated(score, rings, MAX_OVERLAP_RATIO)
    /\ IF \E n \in 1..Len(rings) : rings[n] <= MAX_OVERLAP_RATIO
       THEN score <= MAX_OVERLAP_RATIO
       ELSE AtMostEvaluated(
                score,
                FallbackScores(ringCandidate(rect,
                                             shrunkSizeAt(rect.size,
                                                          (FirstLowest(rings) - 1) \div 19),
                                             (FirstLowest(rings) - 1) \div 19,
                                             (FirstLowest(rings) - 1) % 19, safeZones, canvas,
                                             seed, respectSafeZone),
                               existing, safeZones, canvas, seed, respectSafeZone),
                (MAX_OVERLAP_RATIO * 8) \div 10)

\* the ring scores of the call of resolveOverlaps for the item placed last
LastRingScores ==
    RingScores(lastCall[1].pushed, SubSeq(placements, 1, Len(placements) - 1),
               effectiveSafeZones, canvasSize,
               seedKeyOf(submissions[Len(items)], Len(items) - 1), safeZoneEnabled)

\* C23 best-effort overlap resolution: when resolveOverlaps is called with at
\* least one existing placement, the overlap score of its result is at most
\* the score of every candidate it evaluated in the ring rounds and in the
\* 42-sample fallback, and at most 0.05 when a ring round returned it.
BestEffortOverlap ==
    (phase = "placing" /\ Len(placements) >= 2) =>
        BestOfEvaluated(overlapScore(lastCall[1].rect,
                                     SubSeq(placements, 1, Len(placements) - 1)),
                        lastCall[1].pushed, LastRingScores,
                        SubSeq(placements, 1, Len(placements) - 1),
                        effectiveSafeZones, canvasSize,
                        seedKeyOf(submissions[Len(items)], Len(items) - 1), safeZoneEnabled)

\* an item for which no ring candidate met the tolerance, so the fallback
\* samples decided
BestEffortOverlapWitness ==
    /\ phase = "placing"
    /\ Len(placements) >= 2
    /\ \A n \in 1..Len(LastRingScores) : LastRingScores[n] > MAX_OVERLAP_RATIO

\* the scores selectPocket computed for the item placed last (lines 703-735)
LastPocketScores ==
    [k \in 1..Len(lastCall[1].pockets) |->
        pocketScore(lastCall[1].pockets, k, Len(items) - 1,
                    seedKeyOf(submissions[Len(items)], Len(items) - 1),
                    lastCall[1].densityMap, canvasSize)] \o <<>>

\* fewer than `limit` scores are higher than the score at position k
RankedWithin(scores, k, limit) ==
    Cardinality({j \in 1..Len(scores) : scores[j] > scores[k]}) < limit

\* C24 pocket selection: for a non-empty pocket list selectPocket returns one
\* of the min(4, pocketCount) pockets of highest score, as it is in the list
\* (usage and usedArea untouched); the pockets and the density map change only
\* by the callback's own updates for the placed rectangle.
PocketSelection ==
    (phase = "placing" /\ lastCall # <<>> /\ Len(lastCall[1].pockets) >= 1) =>
        /\ lastCall[1].chosen \in 1..Len(lastCall[1].pockets)
        /\ lastCall[1].pocket = lastCall[1].pockets[lastCall[1].chosen]
        /\ RankedWithin(LastPocketScores, lastCall[1].chosen,
                        Min(4, Len(lastCall[1].pockets)))
        /\ pockets = [lastCall[1].pockets EXCEPT
                         ![lastCall[1].chosen].usage = @ + 1,
                         ![lastCall[1].chosen].usedArea =
                             @ + lastCall[1].rect.size * lastCall[1].rect.size]
        /\ densityMap = applyDensity(lastCall[1].densityMap, lastCall[1].rect)

\* more than four pockets, and the one returned is not the one of highest score
PocketSelectionWitness ==
    /\ phase = "placing"
    /\ lastCall # <<>>
    /\ Len(lastCall[1].pockets) > 4
    /\ ~RankedWithin(LastPocketScores, lastCall[1].chosen, 1)

\* the square covers cell (row, col) of the map with positive area
CoversCell(map, rect, row, col) ==
    /\ rect.x * map.cols < (col + 1) * map.width
    /\ (rect.x + rect.size) * map.cols > col * map.width
    /\ rect.y * map.rows < (row + 1) * map.height
    /\ (rect.y + rect.size) * map.rows > row * map.height

\* C25 density map invariant: every cell value lies in [0, 1] (per-mille); the
\* applyDensity call for the item placed last lowered no cell, added
\* overlapArea / cellArea, capped at 1, to exactly the cells the placed
\* rectangle covers with positive area, and left the other cells unchanged.
DensityInvariant ==
    /\ \A k \in 1..Len(densityMap.values) :
          0 <= densityMap.values[k] /\ densityMap.values[k] <= PerMille
    /\ (phase = "placing" /\ lastCall # <<>>) =>
          \A k \in 1..Len(densityMap.values) :
              /\ densityMap.values[k] >= lastCall[1].densityMap.values[k]
              /\ densityMap.values[k] =
                    IF CoversCell(densityMap, lastCall[1].rect, (k - 1) \div DENSITY_COLS,
                                  (k - 1) % DENSITY_COLS)
                    THEN Min(PerMille,
                             lastCall[1].densityMap.values[k]
                               + cellContribution(densityMap, lastCall[1].rect,
                                                  (k - 1) \div DENSITY_COLS,
                                                  (k - 1) % DENSITY_COLS))
                    ELSE lastCall[1].densityMap.values[k]

\* the last call brought a cell to the cap and left another cell as it was
DensityInvariantWitness ==
    /\ phase = "placing"
    /\ lastCall # <<>>
    /\ \E k \in 1..Len(densityMap.values) :
          /\ densityMap.values[k] = PerMille
          /\ lastCall[1].densityMap.values[k] < PerMille
    /\ \E k \in 1..Len(densityMap.values) :
          /\ densityMap.values[k] = lastCall[1].densityMap.values[k]
          /\ densityMap.values[k] < PerMille

\* the positions of the cells of the map that the rectangle covers with
\* positive area
CoveredCells(map, rect) ==
    {k \in 1..(map.cols * map.rows) :
        /\ rect.x * map.cols < (((k - 1) % map.cols) + 1) * map.width
        /\ (rect.x + rect.width) * map.cols > ((k - 1) % map.cols) * map.width
        /\ rect.y * map.rows < (((k - 1) \div map.cols) + 1) * map.height
        /\ (rect.y + rect.height) * map.rows > ((k - 1) \div map.cols) * map.height}

\* the average (per-mille, at most 1) of the values at the positions `cells`
AverageOver(map, cells) ==
    Min(PerMille,
        SumOf([k \in 1..(map.cols * map.rows) |->
                 IF k \in cells THEN map.values[k] ELSE 0])
          \div Cardinality(cells))

\* C26 density sampling: sampleDensity(map, rect) is the average of the values
\* of exactly the cells rect covers with positive area (cells it only touches
\* along an edge are not counted), and lies in [0, 1].
SamplingExact ==
    (lastCall # <<>> /\ lastCall[1].op = "sampleDensity") =>
        /\ 0 <= lastCall[1].result
        /\ lastCall[1].result <= PerMille
        /\ CoveredCells(lastCall[1].map, lastCall[1].rect) # {} =>
              lastCall[1].result
                = AverageOver(lastCall[1].map, CoveredCells(lastCall[1].map, lastCall[1].rect))

\* C27 usage accounting: after k placements the usage of the pass's pockets
\* sums to k and their usedArea to the sum of size^2 of the k placements; a
\* placement adds 1 to the usage of the selected pocket and of no other.
UsageAccounting ==
    phase \in {"placing", "done"} =>
        /\ SumOf([k \in 1..Len(pockets) |-> pockets[k].usage]) = Len(placements)
        /\ SumOf([k \in 1..Len(pockets) |-> pockets[k].usedArea])
             = SumOf([k \in 1..Len(placements) |-> placements[k].size * placements[k].size])
        /\ (phase = "placing" /\ lastCall # <<>>) =>
              \A k \in 1..Len(pockets) :
                  pockets[k].usage = lastCall[1].pockets[k].usage
                                       + (IF k = lastCall[1].chosen THEN 1 ELSE 0)

\* three items placed, the last of them in a pocket other than the first of
\* the list, and two pockets in use
UsageAccountingWitness ==
    /\ phase = "placing"
    /\ lastCall # <<>>
    /\ Len(placements) >= 3
    /\ lastCall[1].chosen > 1
    /\ \E a, b \in 1..Len(pockets) : a # b /\ pockets[a].usage > 0 /\ pockets[b].usage > 0

\* C28 overlap resolution never enlarges an item: the rectangle resolveOverlaps
\* returns is no larger than the rectangle it was given.
NeverEnlarged ==
    (lastCall # <<>> /\ lastCall[1].op = "resolveOverlaps") =>
        lastCall[1].result.size <= lastCall[1].rect.size

\* a list of the same length that agrees with ids on the first n entries and
\* differs on every later one
OtherTail(ids, n) == [k \in 1..Len(ids) |-> IF k <= n THEN ids[k] ELSE ids[k] + 1]

\* the first n entries of two item lists agree on x, y, size and rotation
SameGeometry(a, b, n) ==
    /\ Len(a) >= n
    /\ Len(b) >= n
    /\ \A k \in 1..n : /\ a[k].x = b[k].x
                        /\ a[k].y = b[k].y
                        /\ a[k].size = b[k].size
                        /\ a[k].rotation = b[k].rotation

\* C29 prefix dependence: the x, y, size and rotation of items 0..i depend
\* only on the canvas, the zones and flags, the item count and the ids of items
\* 0..i: a pass over a list of the same length with the same first i+1 ids and
\* other later ids places items 0..i as this pass did.
PrefixDependence ==
    phase \in {"placing", "done"} =>
        \A n \in 1..Len(items) :
            SameGeometry(items,
                         passItems(n, OtherTail(submissions, n), canvasSize,
                                   effectiveSafeZones, safeZoneEnabled,
                                   rotationEnabled).items,
                         n)

\* a finished pass over five items of which the pass over the list with
\* another tail after the second id places the fifth elsewhere
PrefixDependenceWitness ==
    /\ phase = "done"
    /\ Len(items) >= 5
    /\ ~SameGeometry(items,
                     passItems(Len(items), OtherTail(submissions, 2), canvasSize,
                               effectiveSafeZones, safeZoneEnabled,
                               rotationEnabled).items,
                     Len(items))

\* C30 z-index bijection: after a pass over N items the zIndex values of the
\* placements are the N distinct integers 200 .. 200 + N - 1, also when items
\* have equal sizes.
LayersBijective ==
    phase = "done" =>
        /\ {layout[k].zIndex : k \in 1..Len(layout)} = 200..(200 + Len(submissions) - 1)
        /\ \A a, b \in 1..Len(layout) : layout[a].zIndex = layout[b].zIndex => a = b

\* a finished pass in which two items have the same size
LayersBijectiveWitness ==
    /\ phase = "done"
    /\ Len(layout) >= 3
    /\ \E a, b \in 1..Len(layout) : a # b /\ layout[a].size = layout[b].size


====
